---- MODULE Spec2Model ----
(***************************************************************************)
(* Ledger core of walletbase: wallets with an HMAC checksum chain, the     *)
(* transaction state machine (prepare / commit / cancel) and the credit    *)
(* side-ledger, over a store that offers per-row conditional writes.       *)
(* Every store call is a suspension point, so each call is one step of the *)
(* calling operation and the steps of concurrent callers interleave.       *)
(***************************************************************************)
EXTENDS Integers, Sequences, FiniteSets, TLC

\* ---------------------------------------------------------------- bounds
NumProcs == 2
MaxTxn == 2
\* Transactions a run with a cancel that runs out of retries may create.
MaxTxnStuck == 4
MaxFaults == 1
MaxCreditRows == 3
\* Charges created in a run.
MaxCharges == 2
\* The clock runs from 0 to MaxNow; a charge expires ExpireAfter ticks after
\* its creation (a tick stands for a day).
MaxNow == 2
ExpireAfter == 1
TamperAmount == 1000

\* ------------------------------------------------------- program constants
SYS_ID == 0
MAX_OVERDRAW == 100
MaxRetry == 5
InitCreditAmount == 10

NoId == -1
Procs == 1..NumProcs
Roles == {"payee", "sys", "sub"}

\* The requests callers issue: <<payer, payee, sub_payee, kind, amount>>.
\* One valid request per kind (Sponsor with and Subscribe without a
\* sub-payee, a Spend that overdraws a wallet holding 10) and requests that
\* break the amount, payer, payee and sub_payee rules.
Requests ==
    {<<0, 1, NoId, "award", 10>>,
     <<0, 1, NoId, "topup", 10>>,
     <<1, 0, NoId, "spend", 110>>,
     <<1, 2, 3, "sponsor", 10>>,
     <<1, 2, NoId, "subscribe", 10>>,
     <<1, 0, NoId, "refund", 10>>,
     <<1, 0, NoId, "withdraw", 5>>,
     <<0, 1, NoId, "award", 0>>,
     <<1, 2, NoId, "award", 10>>,
     <<1, 2, NoId, "spend", 10>>,
     <<1, 0, 2, "spend", 10>>,
     <<1, 2, 2, "sponsor", 10>>}

\* The credits callers save: <<uid, txn, kind, amount>>.
CreditRequests ==
    {<<1, 1, "init", 5>>,
     <<1, 4, "award", 5>>,
     <<1, 5, "award", 5>>,
     <<1, 1, "award", 5>>,
     <<2, 4, "init", 5>>,
     <<0, 7, "award", 5>>,
     <<1, 6, "award", 0>>,
     <<0, 8, "award", 0>>,
     <<1, 5, "income", 5>>}

\* ------------------------------------------------------------ f32 helpers
\* An f32 constant is mant * 2^-exp with a 24-bit mantissa.
SYS_FEE_RATE == [mant |-> 8589935, exp |-> 33]

Billion == 1000000000

\* income_fee_rate on an i64 value credits = hi * Billion + lo with
\* 0 <= lo < Billion.
income_fee_rate_i64(hi, lo) ==
    IF hi < 0 THEN [mant |-> 10066330, exp |-> 25]
    ELSE IF hi = 0 THEN
        IF lo <= 9999 THEN [mant |-> 10066330, exp |-> 25]
        ELSE IF lo <= 99999 THEN [mant |-> 9059697, exp |-> 25]
        ELSE IF lo <= 999999 THEN [mant |-> 16106127, exp |-> 26]
        ELSE IF lo <= 9999999 THEN [mant |-> 14092861, exp |-> 26]
        ELSE IF lo <= 99999999 THEN [mant |-> 12079596, exp |-> 26]
        ELSE [mant |-> 10066330, exp |-> 26]
    ELSE IF hi <= 9 THEN [mant |-> 16106127, exp |-> 27]
    ELSE [mant |-> 12079596, exp |-> 27]

income_fee_rate(credits) == income_fee_rate_i64(credits \div Billion, credits % Billion)

RECURSIVE BitLen(_)
BitLen(n) == IF n = 0 THEN 0 ELSE 1 + BitLen(n \div 2)

\* The exact product amount * mant as A * 2^12 + B with 0 <= B < 2^12, for
\* amount < 2^18 and mant < 2^24.
WideProduct(amount, mant) ==
    LET mh == mant \div 4096
        ml == mant % 4096
    IN [A |-> amount * mh + (amount * ml) \div 4096, B |-> (amount * ml) % 4096]

\* Round an exact product to 24 significant bits, ties to even: the result
\* is q * 2^k.
RoundF32(P) ==
    IF P.A < 4096 THEN [q |-> P.A * 4096 + P.B, k |-> 0]
    ELSE LET k == BitLen(P.A) - 12
             q == IF k >= 12 THEN P.A \div (2 ^ (k - 12))
                             ELSE P.A * (2 ^ (12 - k)) + P.B \div (2 ^ k)
             r == IF k >= 12 THEN (P.A % (2 ^ (k - 12))) * 4096 + P.B
                             ELSE P.B % (2 ^ k)
             half == 2 ^ (k - 1)
             up == r > half \/ (r = half /\ q % 2 = 1)
         IN [q |-> IF up THEN q + 1 ELSE q, k |-> k]

\* (amount as f32 * rate) as i64
MulRate(amount, rate) ==
    LET f == RoundF32(WideProduct(amount, rate.mant))
    IN IF rate.exp - f.k >= 25 THEN 0 ELSE f.q \div (2 ^ (rate.exp - f.k))

\* ------------------------------------------------------------------ wallet
tag64(w) == <<w.uid, w.sequence, w.award, w.topup, w.income, w.txn>>

WalletWithPk(uid) ==
    [uid |-> uid, sequence |-> 0, award |-> 0, topup |-> 0, income |-> 0,
     credits |-> 0, txn |-> 0, checksum |-> <<>>]

NullWallet == WalletWithPk(NoId)

is_system(w) == w.uid = SYS_ID

balance(w) == w.award + w.topup + w.income

verify_checksum(w) == w.sequence = 0 \/ tag64(w) = w.checksum

\* Faulty variant: the tag is taken before txn is set.
next_checksum_stale(w, txn) ==
    LET w1 == [w EXCEPT !.sequence = w.sequence + 1]
    IN [w1 EXCEPT !.txn = txn, !.checksum = tag64(w1)]

next_checksum(w, txn) ==
    LET w1 == [w EXCEPT !.sequence = w.sequence + 1, !.txn = txn]
    IN [w1 EXCEPT !.checksum = tag64(w1)]

\* ------------------------------------------------------- transaction kinds
check_payer(kind, uid) ==
    IF kind \in {"award", "topup"} THEN uid = SYS_ID ELSE uid # SYS_ID

check_payee(kind, uid) ==
    IF kind \in {"spend", "withdraw", "refund"} THEN uid = SYS_ID ELSE uid # SYS_ID

\* Faulty variant: a sub-payee is accepted for every kind.
check_sub_payee_any(kind) == TRUE

check_sub_payee(kind) == kind \in {"sponsor", "subscribe"}

\* Faulty variant: the overdraw is recorded on income.
CascadeIncome(w, amount) ==
    LET a1 == w.award - amount IN
    IF a1 >= 0 THEN [w EXCEPT !.award = a1]
    ELSE LET t1 == w.topup + a1 IN
         IF t1 >= 0 THEN [w EXCEPT !.award = 0, !.topup = t1]
         ELSE [w EXCEPT !.award = 0, !.topup = 0, !.income = w.income + t1]

\* Faulty variant: topup is consumed before award.
CascadeTopupFirst(w, amount) ==
    LET t1 == w.topup - amount IN
    IF t1 >= 0 THEN [w EXCEPT !.topup = t1]
    ELSE LET a1 == w.award + t1 IN
         IF a1 >= 0 THEN [w EXCEPT !.topup = 0, !.award = a1]
         ELSE LET i1 == w.income + a1 IN
              IF i1 >= 0 THEN [w EXCEPT !.award = 0, !.topup = 0, !.income = i1]
              ELSE [w EXCEPT !.award = 0, !.topup = i1, !.income = 0]

\* Spend / Sponsor / Subscribe: award first, then topup, then income; what
\* is still missing is recorded as negative topup.
Cascade(w, amount) ==
    LET a1 == w.award - amount IN
    IF a1 >= 0 THEN [w EXCEPT !.award = a1]
    ELSE LET t1 == w.topup + a1 IN
         IF t1 >= 0 THEN [w EXCEPT !.award = 0, !.topup = t1]
         ELSE LET i1 == w.income + t1 IN
              IF i1 >= 0 THEN [w EXCEPT !.award = 0, !.topup = 0, !.income = i1]
              ELSE [w EXCEPT !.award = 0, !.topup = i1, !.income = 0]

\* Faulty variant: withdraw and refund are held to the balance only.
PayerQuotaBalance(kind, w) ==
    CASE kind = "spend" -> balance(w) + MAX_OVERDRAW
      [] OTHER -> balance(w)

PayerQuota(kind, w) ==
    CASE kind = "withdraw" -> w.income
      [] kind = "refund" -> w.topup
      [] kind = "spend" -> balance(w) + MAX_OVERDRAW
      [] OTHER -> balance(w)

\* Result of sub_payer_balance: ok and the wallet after the deduction (the
\* wallet is untouched on every error path).
sub_payer_balance(kind, w, amount) ==
    IF is_system(w) THEN
        CASE kind = "award" -> [ok |-> TRUE, w |-> [w EXCEPT !.award = w.award - amount]]
          [] kind = "topup" -> [ok |-> TRUE, w |-> [w EXCEPT !.topup = w.topup - amount]]
          [] OTHER -> [ok |-> FALSE, w |-> w]
    ELSE IF w.credits = 0 /\ kind # "spend" THEN [ok |-> FALSE, w |-> w]
    ELSE IF balance(w) <= 0 \/ PayerQuota(kind, w) < amount THEN [ok |-> FALSE, w |-> w]
    ELSE CASE kind = "withdraw" -> [ok |-> TRUE, w |-> [w EXCEPT !.income = w.income - amount]]
           [] kind = "refund" -> [ok |-> TRUE, w |-> [w EXCEPT !.topup = w.topup - amount]]
           [] kind \in {"spend", "sponsor", "subscribe"} -> [ok |-> TRUE, w |-> Cascade(w, amount)]
           [] OTHER -> [ok |-> FALSE, w |-> w]

\* Faulty variant: everything but a withdrawal is returned to award.
rollback_payer_balance_award(kind, w, amount) ==
    CASE kind = "withdraw" -> [w EXCEPT !.income = w.income + amount]
      [] OTHER -> [w EXCEPT !.award = w.award + amount]

\* Faulty variant: nothing is returned to the payer.
rollback_payer_balance_none(kind, w, amount) == w

rollback_payer_balance(kind, w, amount) ==
    CASE kind = "award" -> [w EXCEPT !.award = w.award + amount]
      [] kind = "withdraw" -> [w EXCEPT !.income = w.income + amount]
      [] OTHER -> [w EXCEPT !.topup = w.topup + amount]

\* Faulty variant: a withdrawal is credited to income, as a rollback is.
add_payee_balance_income(kind, w, amount) ==
    CASE kind = "award" -> [w EXCEPT !.award = w.award + amount]
      [] kind \in {"topup", "refund"} -> [w EXCEPT !.topup = w.topup + amount]
      [] OTHER -> [w EXCEPT !.income = w.income + amount]

add_payee_balance(kind, w, amount) ==
    CASE kind = "award" -> [w EXCEPT !.award = w.award + amount]
      [] kind \in {"topup", "refund", "withdraw"} -> [w EXCEPT !.topup = w.topup + amount]
      [] OTHER -> [w EXCEPT !.income = w.income + amount]

Max1(n) == IF n < 1 THEN 1 ELSE n

\* fee_and_shares with the rate of an i64 credits value hi * Billion + lo.
fee_and_shares_i64(kind, amount, hi, lo, has_sub_payee) ==
    CASE kind = "withdraw" -> <<Max1(MulRate(amount, SYS_FEE_RATE)), 0>>
      [] kind \in {"sponsor", "subscribe"} ->
            LET sys_fee == Max1(MulRate(amount, income_fee_rate_i64(hi, lo)))
            IN <<sys_fee, IF has_sub_payee THEN (amount - sys_fee) \div 2 ELSE 0>>
      [] OTHER -> <<0, 0>>

fee_and_shares(kind, amount, credits, has_sub_payee) ==
    fee_and_shares_i64(kind, amount, credits \div Billion, credits % Billion, has_sub_payee)


\* ------------------------------------------------------------------- state
VARIABLES wallets, txns, credits, nextId, faults, pc, doc, cdoc, mem, tries, tasks, ret, applied,
          workload, charges, now, hdoc, topups, arg, out

store == <<wallets, txns, credits, nextId, faults, applied>>
locals == <<pc, doc, cdoc, mem, tries, tasks, ret>>
\* What no ledger operation touches: the workload, the charge table, the
\* clock, the in-memory charge of a charge handler and the history of the
\* Topup transactions prepared for each charge.
env == <<workload, charges, now, hdoc, topups, arg, out>>
vars == <<wallets, txns, credits, nextId, faults, pc, doc, cdoc, mem, tries, tasks, ret, applied,
          workload, charges, now, hdoc, topups, arg, out>>

\* Charge::default()
NullCharge ==
    [uid |-> NoId, id |-> NoId, status |-> 0, quantity |-> 0, expire_at |-> 0,
     charge_id |-> "", txn |-> NoId]

\* ColumnsMap of a charge update: the columns in `set` get the given values.
NoCols == [set |-> {}, status |-> 0, charge_id |-> "", txn |-> NoId]

\* The locals of a charge handler: the in-memory charge c, the status and
\* the columns handed to Charge::update, the handler that called it, and
\* the rendered rows of a list.
NullHandler ==
    [c |-> NullCharge, expect |-> 0, cols |-> NoCols, step |-> "", rows |-> {}]

NullDoc ==
    [uid |-> NoId, id |-> NoId, sequence |-> 0, payee |-> NoId, sub_payee |-> NoId,
     status |-> 0, kind |-> "", amount |-> 0, sys_fee |-> 0, sub_shares |-> 0]

NullCredit == [uid |-> NoId, txn |-> NoId, kind |-> "", amount |-> 0]

\* The argument and the result of a function that is called on its own:
\* a transaction row t, a wallet w, the billions of a credits value and
\* the has_sub_payee flag go in; a list of credits, a pair of fees, or a
\* success flag with a wallet comes out.
NoArg == [fn |-> "none", t |-> NullDoc, w |-> NullWallet, hi |-> 0, has |-> FALSE]
NoOut == [fn |-> "none", list |-> <<>>, fee |-> <<0, 0>>, ok |-> FALSE, w |-> NullWallet]

IdleTask == [st |-> "idle", w |-> NullWallet, n |-> 0]
IdleTasks == [r \in Roles |-> IdleTask]

NoRet == [op |-> "none", id |-> NoId, res |-> "none"]

GhostRoles == {"payer", "rollback", "payee", "sys", "sub"}
NoApplied ==
    [r \in GhostRoles |-> [n |-> 0, award |-> 0, topup |-> 0, income |-> 0, tagged |-> TRUE]]

\* History of the wallet writes that applied, per transaction and role: how
\* many, the change they made to each stored bucket, and whether each
\* stored txn = id.
Record(id, role, old, new) ==
    [applied EXCEPT ![id][role] =
        [n |-> @.n + 1,
         award |-> @.award + new.award - old.award,
         topup |-> @.topup + new.topup - old.topup,
         income |-> @.income + new.income - old.income,
         tagged |-> @.tagged /\ new.txn = id]]

Delta(a) == a.award + a.topup + a.income

\* The store after construction: the system wallet alone.
FreshWallets == (SYS_ID :> WalletWithPk(SYS_ID))

\* The store after the history
\*   1: Award 110 system -> user 1, committed;
\*   2: Topup 10 system -> user 1, committed;
\*   Credit (user 1, txn 1, init) saved;
\*   3: Sponsor 10 user 1 -> user 1 (fee 3), committed.
HistWallet(uid, sequence, award, topup, income, cr, txn) ==
    LET w == [uid |-> uid, sequence |-> sequence, award |-> award, topup |-> topup,
              income |-> income, credits |-> cr, txn |-> txn, checksum |-> <<>>]
    IN [w EXCEPT !.checksum = tag64(w)]

FundedWallets ==
    (SYS_ID :> HistWallet(SYS_ID, 3, -110, -10, 3, 0, 3))
    @@ (1 :> HistWallet(1, 4, 100, 10, 7, 10, 3))

HistRow(uid, id, sequence, payee, kind, amount, sys_fee) ==
    [uid |-> uid, id |-> id, sequence |-> sequence, payee |-> payee, sub_payee |-> NoId,
     status |-> 3, kind |-> kind, amount |-> amount, sys_fee |-> sys_fee, sub_shares |-> 0]

FundedTxns ==
    (1 :> HistRow(SYS_ID, 1, 0, 1, "award", 110, 0))
    @@ (2 :> HistRow(SYS_ID, 2, 1, 1, "topup", 10, 0))
    @@ (3 :> HistRow(1, 3, 2, 1, "sponsor", 10, 3))

FundedCredits == (<<1, 1>> :> [kind |-> "init", amount |-> 10])

\* Ids 1..HistTxn belong to the history behind the funded initial state.
HistTxn == Cardinality(DOMAIN FundedTxns)
Ids == 1..(HistTxn + (IF MaxTxn > MaxTxnStuck THEN MaxTxn ELSE MaxTxnStuck))

HistDelta(n, award, topup, income) ==
    [n |-> n, award |-> award, topup |-> topup, income |-> income, tagged |-> TRUE]

FundedApplied ==
    [i \in Ids |->
        CASE i = 1 -> [NoApplied EXCEPT !["payer"] = HistDelta(1, -110, 0, 0),
                                        !["payee"] = HistDelta(1, 110, 0, 0)]
          [] i = 2 -> [NoApplied EXCEPT !["payer"] = HistDelta(1, 0, -10, 0),
                                        !["payee"] = HistDelta(1, 0, 10, 0)]
          [] i = 3 -> [NoApplied EXCEPT !["payer"] = HistDelta(1, -10, 0, 0),
                                        !["payee"] = HistDelta(1, 0, 0, 7),
                                        !["sys"] = HistDelta(1, 0, 0, 3)]
          [] OTHER -> NoApplied]

\* A workload fixes, for one run, the store the run starts from, how many
\* callers are active, which requests they issue and how many store calls
\* may fail.
Workloads ==
    {[fresh |-> TRUE, procs |-> 1, reqs |-> Requests, creds |-> CreditRequests,
      faults |-> MaxFaults],
     [fresh |-> FALSE, procs |-> 1, reqs |-> Requests, creds |-> {},
      faults |-> MaxFaults],
     [fresh |-> FALSE, procs |-> 1, reqs |-> {}, creds |-> CreditRequests,
      faults |-> MaxFaults],
     [fresh |-> TRUE, procs |-> NumProcs, faults |-> 0, creds |-> {},
      reqs |-> {<<0, 1, NoId, "award", 10>>, <<1, 0, NoId, "spend", 110>>}],
     [fresh |-> FALSE, procs |-> NumProcs, faults |-> 0, creds |-> {},
      reqs |-> {<<1, 2, 3, "sponsor", 10>>}],
     [fresh |-> FALSE, procs |-> NumProcs, faults |-> 0,
      creds |-> {<<1, 4, "award", 5>>, <<1, 5, "award", 5>>}, reqs |-> {}],
     [fresh |-> FALSE, procs |-> NumProcs, faults |-> 0,
      creds |-> {<<1, 4, "award", 5>>}, reqs |-> {<<1, 0, NoId, "refund", 10>>}],
     [fresh |-> TRUE, procs |-> 1, faults |-> 0, creds |-> {},
      reqs |-> {<<0, 1, NoId, "award", 1>>}]}

\* Two callers spend from user 1 and cancel: enough transactions for one
\* cancel to lose the payer update MaxRetry times to the other caller.
StuckWorkload ==
    [fresh |-> FALSE, procs |-> NumProcs, faults |-> 0, creds |-> {},
     reqs |-> {<<1, 0, NoId, "spend", 10>>}]

\* Caller 1 awards to user 1 and commits; the other caller spends from
\* user 1 and cancels, so that the payee task of a commit loses its update
\* of user 1's wallet MaxRetry times.
CommitRetryWorkload ==
    [fresh |-> FALSE, procs |-> NumProcs, faults |-> 0, creds |-> {},
     reqs |-> {<<0, 1, NoId, "award", 10>>, <<1, 0, NoId, "spend", 10>>}]

\* Two callers save credits of user 1: enough rows for one save to lose the
\* counter update MaxRetry times to the other caller.
CreditRetryWorkload ==
    [fresh |-> FALSE, procs |-> NumProcs, faults |-> 0, reqs |-> {},
     creds |-> {<<1, HistTxn + i, "award", 5>> : i \in 1 .. MaxRetry + 1}]

RetryWorkloads == {StuckWorkload, CommitRetryWorkload, CreditRetryWorkload}

\* How many transactions a run may create.
TxnCap == IF workload \in RetryWorkloads THEN MaxTxnStuck ELSE MaxTxn

\* How many credit rows a run may hold.
CreditCap == IF workload \in RetryWorkloads THEN MaxRetry + 2 ELSE MaxCreditRows

Init ==
    /\ workload \in Workloads
    /\ IF workload.fresh
       THEN /\ wallets = FreshWallets
            /\ txns = <<>>
            /\ credits = <<>>
            /\ applied = [i \in Ids |-> NoApplied]
       ELSE /\ wallets = FundedWallets
            /\ txns = FundedTxns
            /\ credits = FundedCredits
            /\ applied = FundedApplied
    /\ nextId = HistTxn + 1
    /\ faults = 0
    /\ pc = [p \in Procs |-> "idle"]
    /\ doc = [p \in Procs |-> NullDoc]
    /\ cdoc = [p \in Procs |-> NullCredit]
    /\ mem = [p \in Procs |-> NullWallet]
    /\ tries = [p \in Procs |-> 0]
    /\ tasks = [p \in Procs |-> IdleTasks]
    /\ ret = [p \in Procs |-> NoRet]
    /\ charges = <<>>
    /\ now = 0
    /\ hdoc = [p \in Procs |-> NullHandler]
    /\ topups = <<>>
    /\ arg = NoArg
    /\ out = NoOut

\* The operation of process p returns res to its caller; its in-memory
\* values are dropped.
Finish(p, op, id, res) ==
    /\ pc' = [pc EXCEPT ![p] = "done"]
    /\ ret' = [ret EXCEPT ![p] = [op |-> op, id |-> id, res |-> res]]
    /\ doc' = [doc EXCEPT ![p] = NullDoc]
    /\ cdoc' = [cdoc EXCEPT ![p] = NullCredit]
    /\ mem' = [mem EXCEPT ![p] = NullWallet]
    /\ tries' = [tries EXCEPT ![p] = 0]
    /\ tasks' = [tasks EXCEPT ![p] = IdleTasks]

\* The caller takes the result; the process is free for the next request.
Return(p) ==
    /\ pc[p] = "done"
    /\ hdoc[p].step \in {"complete1", "complete2"} => ret[p].op = "complete"
    /\ pc' = [pc EXCEPT ![p] = "idle"]
    /\ ret' = [ret EXCEPT ![p] = NoRet]
    /\ hdoc' = [hdoc EXCEPT ![p] = NullHandler]
    /\ UNCHANGED <<store, doc, cdoc, mem, tries, tasks>>
    /\ UNCHANGED <<workload, charges, now, topups, arg, out>>

\* --------------------------------------------------------- store operations
\* Faulty variant: UPDATE without the IF sequence=? condition.
CasAppliesUnguarded(w) == w.uid \in DOMAIN wallets

\* UPDATE wallet SET sequence,award,topup,income,txn,checksum IF sequence=?
CasApplies(w) ==
    w.uid \in DOMAIN wallets /\ wallets[w.uid].sequence = w.sequence - 1

\* Faulty variant: the txn column is left as it was.
WriteBalanceNoTxn(old, w) ==
    [old EXCEPT !.sequence = w.sequence, !.award = w.award, !.topup = w.topup,
                !.income = w.income, !.checksum = w.checksum]

\* Faulty variant: the credits of the in-memory wallet are written too.
WriteBalanceAndCredits(old, w) ==
    [old EXCEPT !.sequence = w.sequence, !.award = w.award, !.topup = w.topup,
                !.income = w.income, !.txn = w.txn, !.checksum = w.checksum,
                !.credits = w.credits]

WriteBalance(old, w) ==
    [old EXCEPT !.sequence = w.sequence, !.award = w.award, !.topup = w.topup,
                !.income = w.income, !.txn = w.txn, !.checksum = w.checksum]

update_balance(w) == [wallets EXCEPT ![w.uid] = WriteBalance(@, w)]

\* Faulty variant: a plain INSERT, which replaces an existing row.
save_overwrite(w) == (w.uid :> w) @@ wallets

\* INSERT INTO wallet ... IF NOT EXISTS
save(w) == IF w.uid \in DOMAIN wallets THEN wallets ELSE wallets @@ (w.uid :> w)

\* Faulty variant: the update is not conditional on the stored status.
StatusIsAny(id, from) == id \in DOMAIN txns

\* UPDATE transaction SET status=? IF status=?
\* Faulty variant: UPDATE ... IF status >= ?
StatusAtLeast(id, from) == id \in DOMAIN txns /\ txns[id].status >= from

StatusIs(id, from) == id \in DOMAIN txns /\ txns[id].status = from

\* Faulty variant: the row is rewritten with a new sequence.
set_status_resequenced(id, to) ==
    [txns EXCEPT ![id].status = to, ![id].sequence = @ + 1]

\* UPDATE transaction SET status=? WHERE uid=? AND id=? IF status=?
set_status(id, to) == [txns EXCEPT ![id].status = to]

delete(id) == [i \in DOMAIN txns \ {id} |-> txns[i]]

\* ------------------------------------------------------------------ prepare
\* Faulty variant: a sub-payee is not compared with the other parties.
PrepareValidAnySub(uid, payee, sub, kind, amount) ==
    /\ amount > 0
    /\ check_payer(kind, uid)
    /\ check_payee(kind, payee)
    /\ sub # NoId => check_sub_payee(kind)

PrepareValid(uid, payee, sub, kind, amount) ==
    /\ amount > 0
    /\ check_payer(kind, uid)
    /\ check_payee(kind, payee)
    /\ sub # NoId => (check_sub_payee(kind) /\ sub \notin {payee, SYS_ID, uid})

\* Argument validation fails before any store call.
PrepareInvalid(p, uid, payee, sub, kind, amount) ==
    /\ pc[p] = "idle"
    /\ p <= workload.procs
    /\ ~PrepareValid(uid, payee, sub, kind, amount)
    /\ Finish(p, "prepare", NoId, "err")
    /\ UNCHANGED store
    /\ UNCHANGED env

\* The payer wallet is missing, fails verification, or cannot pay.
PrepareRefused(p, uid, payee, sub, kind, amount) ==
    /\ pc[p] = "idle"
    /\ p <= workload.procs
    /\ PrepareValid(uid, payee, sub, kind, amount)
    /\ \/ uid \notin DOMAIN wallets
       \/ /\ uid \in DOMAIN wallets
          /\ \/ ~verify_checksum(wallets[uid])
             \/ ~sub_payer_balance(kind, wallets[uid], amount).ok
    /\ Finish(p, "prepare", NoId, "err")
    /\ UNCHANGED store
    /\ UNCHANGED env

\* Faulty variant: the row records the sequence after the deduction.
NewTransactionNextSeq(uid, id, w, payee, sub, kind, amount) ==
    LET fs == fee_and_shares(kind, amount, w.credits, sub # NoId)
    IN [uid |-> uid, id |-> id, sequence |-> w.sequence + 1, payee |-> payee,
        sub_payee |-> sub, status |-> 0, kind |-> kind, amount |-> amount,
        sys_fee |-> fs[1], sub_shares |-> fs[2]]

\* The row prepare fills in before the insert; w is the payer wallet as read.
NewTransaction(uid, id, w, payee, sub, kind, amount) ==
    LET fs == fee_and_shares(kind, amount, w.credits, sub # NoId)
    IN [uid |-> uid, id |-> id, sequence |-> w.sequence, payee |-> payee,
        sub_payee |-> sub, status |-> 0, kind |-> kind, amount |-> amount,
        sys_fee |-> fs[1], sub_shares |-> fs[2]]

\* get_one(payer), verify, fees, in-memory deduction, fresh id.
PrepareRead(p, uid, payee, sub, kind, amount) ==
    /\ pc[p] = "idle"
    /\ p <= workload.procs
    /\ nextId <= HistTxn + TxnCap
    /\ PrepareValid(uid, payee, sub, kind, amount)
    /\ uid \in DOMAIN wallets
    /\ verify_checksum(wallets[uid])
    /\ LET w == wallets[uid]
           r == sub_payer_balance(kind, w, amount)
       IN /\ r.ok
          /\ mem' = [mem EXCEPT ![p] = r.w]
          /\ doc' = [doc EXCEPT ![p] =
                        NewTransaction(uid, nextId, w, payee, sub, kind, amount)]
    /\ nextId' = nextId + 1
    /\ pc' = [pc EXCEPT ![p] = "p_insert"]
    /\ UNCHANGED ret
    /\ UNCHANGED <<wallets, txns, credits, faults, applied, cdoc, tries, tasks>>
    /\ UNCHANGED env

\* INSERT INTO transaction ... IF NOT EXISTS (the id is fresh), then
\* next_checksum on the in-memory payer wallet.
PrepareInsert(p) ==
    /\ pc[p] = "p_insert"
    /\ doc[p].id \notin DOMAIN txns
    /\ txns' = txns @@ (doc[p].id :> doc[p])
    /\ mem' = [mem EXCEPT ![p] = next_checksum(@, doc[p].id)]
    /\ pc' = [pc EXCEPT ![p] = "p_update"]
    /\ UNCHANGED <<wallets, credits, nextId, faults, applied, doc, cdoc, tries, tasks, ret>>
    /\ UNCHANGED env

\* update_balance(payer): applied, or the sequence guard lost.
PrepareUpdate(p) ==
    /\ pc[p] = "p_update"
    /\ IF CasApplies(mem[p])
       THEN /\ wallets' = update_balance(mem[p])
            /\ applied' = Record(doc[p].id, "payer", wallets[mem[p].uid], wallets'[mem[p].uid])
            /\ pc' = [pc EXCEPT ![p] = "p_status"]
       ELSE /\ pc' = [pc EXCEPT ![p] = "p_delete"]
            /\ UNCHANGED <<wallets, applied>>
    /\ UNCHANGED <<txns, credits, nextId, faults, doc, cdoc, mem, tries, tasks, ret>>
    /\ UNCHANGED env

\* set_status(0, 1) and return Ok (whether or not the update applied).
PrepareSetStatus(p) ==
    /\ pc[p] = "p_status"
    /\ txns' = IF StatusIs(doc[p].id, 0) THEN set_status(doc[p].id, 1) ELSE txns
    /\ Finish(p, "prepare", doc[p].id, "ok")
    /\ UNCHANGED <<wallets, credits, nextId, faults, applied>>
    /\ UNCHANGED env

\* The payer CAS lost: delete the row and report the failure.
PrepareDelete(p) ==
    /\ pc[p] = "p_delete"
    /\ txns' = delete(doc[p].id)
    /\ Finish(p, "prepare", doc[p].id, "err")
    /\ UNCHANGED <<wallets, credits, nextId, faults, applied>>
    /\ UNCHANGED env

\* ------------------------------------------------------ reading a row (API)
\* Transaction::get_one by the commit / cancel handlers: the in-memory copy
\* the operation then works on (it is the copy prepare returned as well).
Load(p, id, op) ==
    /\ pc[p] = "idle"
    /\ p <= workload.procs
    /\ id \in DOMAIN txns
    /\ op \in {"commit", "cancel"}
    /\ doc' = [doc EXCEPT ![p] = txns[id]]
    /\ pc' = [pc EXCEPT ![p] = op]
    /\ UNCHANGED ret
    /\ UNCHANGED <<store, cdoc, mem, tries, tasks>>
    /\ UNCHANGED env

\* ------------------------------------------------------------------- cancel
\* Faulty variant: the status of the in-memory row is not looked at.
CancelAllowedAnyStatus(d) == d.amount > 0

\* cancel works on an in-memory row that is Prepared and has an amount.
CancelAllowed(d) == d.status = 1 /\ d.amount > 0

CancelReject(p) ==
    /\ pc[p] = "cancel"
    /\ ~CancelAllowed(doc[p])
    /\ Finish(p, "cancel", doc[p].id, "err")
    /\ UNCHANGED store
    /\ UNCHANGED env

\* set_status(1, -1): the conditional update.
CancelCas(p) ==
    /\ pc[p] = "cancel"
    /\ CancelAllowed(doc[p])
    /\ IF StatusIs(doc[p].id, 1)
       THEN /\ txns' = set_status(doc[p].id, -1)
            /\ doc' = [doc EXCEPT ![p].status = -1]
            /\ pc' = [pc EXCEPT ![p] = "x_get"]
       ELSE /\ pc' = [pc EXCEPT ![p] = "x_status"]
            /\ UNCHANGED <<txns, doc>>
    /\ UNCHANGED <<wallets, credits, nextId, faults, applied, cdoc, mem, tries, tasks, ret>>
    /\ UNCHANGED env

\* set_status not applied: re-read the status and decide.
CancelReadStatus(p) ==
    /\ pc[p] = "x_status"
    /\ IF doc[p].id \in DOMAIN txns /\ txns[doc[p].id].status < 0
       THEN Finish(p, "cancel", doc[p].id, "ok")
       ELSE Finish(p, "cancel", doc[p].id, "err")
    /\ UNCHANGED store
    /\ UNCHANGED env

\* get_one(payer), verify, rollback, next_checksum.
CancelGet(p) ==
    /\ pc[p] = "x_get"
    /\ doc[p].uid \in DOMAIN wallets
    /\ LET w == wallets[doc[p].uid] IN
       IF verify_checksum(w)
       THEN /\ mem' = [mem EXCEPT ![p] =
                         next_checksum(rollback_payer_balance(doc[p].kind, w, doc[p].amount), doc[p].id)]
            /\ pc' = [pc EXCEPT ![p] = "x_cas"]
            /\ UNCHANGED <<doc, cdoc, tries, tasks, ret>>
       ELSE Finish(p, "cancel", doc[p].id, "err")
    /\ UNCHANGED store
    /\ UNCHANGED env

\* Faulty variant: no retry.
RetriesExhaustedAtOnce(n) == TRUE

\* `for _ in 0..5`: n attempts failed before this one.
RetriesExhausted(n) == n + 1 >= MaxRetry

\* update_balance(payer) inside the retry loop.
CancelUpdate(p) ==
    /\ pc[p] = "x_cas"
    /\ IF CasApplies(mem[p])
       THEN /\ wallets' = update_balance(mem[p])
            /\ applied' = Record(doc[p].id, "rollback", wallets[mem[p].uid], wallets'[mem[p].uid])
            /\ pc' = [pc EXCEPT ![p] = "x_final"]
            /\ UNCHANGED <<doc, cdoc, mem, tries, tasks, ret>>
       ELSE /\ UNCHANGED <<wallets, applied>>
            /\ IF RetriesExhausted(tries[p])
               THEN Finish(p, "cancel", doc[p].id, "err")
               ELSE /\ tries' = [tries EXCEPT ![p] = @ + 1]
                    /\ pc' = [pc EXCEPT ![p] = "x_get"]
                    /\ UNCHANGED <<doc, cdoc, mem, tasks, ret>>
    /\ UNCHANGED <<txns, credits, nextId, faults>>
    /\ UNCHANGED env

\* set_status(-1, -2) and return Ok (whether or not the update applied).
CancelFinal(p) ==
    /\ pc[p] = "x_final"
    /\ txns' = IF StatusIs(doc[p].id, -1) THEN set_status(doc[p].id, -2) ELSE txns
    /\ Finish(p, "cancel", doc[p].id, "ok")
    /\ UNCHANGED <<wallets, credits, nextId, faults, applied>>
    /\ UNCHANGED env

\* ------------------------------------------------------------------- commit
\* set_status(1, 2): the conditional update.  (check_payee and the
\* sub_payee assertion hold of every row prepare wrote.)
CommitCas(p) ==
    /\ pc[p] = "commit"
    /\ check_payee(doc[p].kind, doc[p].payee)
    /\ IF StatusIs(doc[p].id, 1)
       THEN /\ txns' = set_status(doc[p].id, 2)
            /\ doc' = [doc EXCEPT ![p].status = 2]
            /\ pc' = [pc EXCEPT ![p] = "c_payee_get"]
       ELSE /\ pc' = [pc EXCEPT ![p] = "c_status"]
            /\ UNCHANGED <<txns, doc>>
    /\ UNCHANGED <<wallets, credits, nextId, faults, applied, cdoc, mem, tries, tasks, ret>>
    /\ UNCHANGED env

\* Faulty variant: no "already committed" path.
CommitConflictFails(status) == "err"

\* What commit returns when set_status(1, 2) did not apply and the row now
\* has the given status.
CommitConflictResult(status) == IF status = 3 THEN "ok" ELSE "err"

\* set_status not applied: re-read the status; 3 is "already committed".
CommitReadStatus(p) ==
    /\ pc[p] = "c_status"
    /\ IF doc[p].id \in DOMAIN txns
       THEN Finish(p, "commit", doc[p].id, CommitConflictResult(txns[doc[p].id].status))
       ELSE Finish(p, "commit", doc[p].id, "err")
    /\ UNCHANGED store
    /\ UNCHANGED env

\* The three sub-tasks as they stand when join! starts polling them.
StartTasks(p, w) ==
    [payee |-> [st |-> "cas", w |-> w, n |-> 0],
     sys |-> IF doc[p].sys_fee > 0 /\ doc[p].payee # SYS_ID
             THEN [IdleTask EXCEPT !.st = "get"] ELSE [IdleTask EXCEPT !.st = "ok"],
     sub |-> IF doc[p].sub_shares > 0
             THEN [IdleTask EXCEPT !.st = "get"] ELSE [IdleTask EXCEPT !.st = "ok"]]

\* payee_wallet.get_one: found, or to be created.
CommitPayeeGet(p) ==
    /\ pc[p] = "c_payee_get"
    /\ IF doc[p].payee \in DOMAIN wallets
       THEN /\ tasks' = [tasks EXCEPT ![p] = StartTasks(p, wallets[doc[p].payee])]
            /\ pc' = [pc EXCEPT ![p] = "c_join"]
            /\ UNCHANGED mem
       ELSE /\ mem' = [mem EXCEPT ![p] = WalletWithPk(doc[p].payee)]
            /\ pc' = [pc EXCEPT ![p] = "c_payee_save"]
            /\ UNCHANGED tasks
    /\ UNCHANGED <<store, doc, cdoc, tries, ret>>
    /\ UNCHANGED env

\* payee_wallet.save: INSERT ... IF NOT EXISTS, the in-memory wallet stays
\* the default one.
CommitPayeeSave(p) ==
    /\ pc[p] = "c_payee_save"
    /\ wallets' = save(mem[p])
    /\ tasks' = [tasks EXCEPT ![p] = StartTasks(p, mem[p])]
    /\ mem' = [mem EXCEPT ![p] = NullWallet]
    /\ pc' = [pc EXCEPT ![p] = "c_join"]
    /\ UNCHANGED <<txns, credits, nextId, faults, applied, doc, cdoc, tries, ret>>
    /\ UNCHANGED env

TaskUid(p, r) ==
    CASE r = "payee" -> doc[p].payee
      [] r = "sys" -> SYS_ID
      [] r = "sub" -> doc[p].sub_payee

\* Faulty variant: the payee keeps the system fee.
TaskCreditGross(p, r, w) ==
    CASE r = "payee" -> add_payee_balance(doc[p].kind, w, doc[p].amount - doc[p].sub_shares)
      [] r = "sys" -> [w EXCEPT !.income = w.income + doc[p].sys_fee]
      [] r = "sub" -> [w EXCEPT !.income = w.income + doc[p].sub_shares]

\* What a sub-task adds to its in-memory wallet.
TaskCredit(p, r, w) ==
    CASE r = "payee" ->
            LET w1 == add_payee_balance(doc[p].kind, w,
                          doc[p].amount - doc[p].sys_fee - doc[p].sub_shares)
            IN IF is_system(w1) THEN [w1 EXCEPT !.income = w1.income + doc[p].sys_fee] ELSE w1
      [] r = "sys" -> [w EXCEPT !.income = w.income + doc[p].sys_fee]
      [] r = "sub" -> [w EXCEPT !.income = w.income + doc[p].sub_shares]

SetTask(p, r, t) == tasks' = [tasks EXCEPT ![p][r] = t]

\* Faulty variant: a missing wallet ends every task.
MissingWalletFails(r) == "err"

\* get_one found no wallet: the sub-payee task creates it (res.is_err()
\* leads to save), the system-fee task ends with the error (`?`).
MissingWallet(r) == IF r = "sub" THEN "save" ELSE "err"

\* get_one at the head of the system-fee loop and of the sub-payee task.
TaskGet(p, r) ==
    /\ pc[p] = "c_join"
    /\ tasks[p][r].st = "get"
    /\ IF TaskUid(p, r) \in DOMAIN wallets
       THEN SetTask(p, r, [tasks[p][r] EXCEPT !.st = "cas", !.w = wallets[TaskUid(p, r)]])
       ELSE IF MissingWallet(r) = "save"
            THEN SetTask(p, r, [tasks[p][r] EXCEPT !.st = "save", !.w = WalletWithPk(TaskUid(p, r))])
            ELSE SetTask(p, r, [tasks[p][r] EXCEPT !.st = "err"])
    /\ UNCHANGED <<store, pc, doc, cdoc, mem, tries, ret>>
    /\ UNCHANGED env

\* sub_wallet.save
TaskSave(p, r) ==
    /\ pc[p] = "c_join"
    /\ tasks[p][r].st = "save"
    /\ wallets' = save(tasks[p][r].w)
    /\ SetTask(p, r, [tasks[p][r] EXCEPT !.st = "cas"])
    /\ UNCHANGED <<txns, credits, nextId, faults, applied, pc, doc, cdoc, mem, tries, ret>>
    /\ UNCHANGED env

\* One iteration of a sub-task loop: verify, credit, next_checksum,
\* update_balance.
TaskCas(p, r) ==
    /\ pc[p] = "c_join"
    /\ tasks[p][r].st = "cas"
    /\ LET t == tasks[p][r]
           w2 == next_checksum(TaskCredit(p, r, t.w), doc[p].id)
       IN IF ~verify_checksum(t.w)
          THEN /\ SetTask(p, r, [t EXCEPT !.st = "err"])
               /\ UNCHANGED <<wallets, applied>>
          ELSE IF CasApplies(w2)
          THEN /\ wallets' = update_balance(w2)
               /\ applied' = Record(doc[p].id, r, wallets[w2.uid], wallets'[w2.uid])
               /\ SetTask(p, r, [t EXCEPT !.st = "ok", !.w = NullWallet])
          ELSE /\ UNCHANGED <<wallets, applied>>
               /\ SetTask(p, r, [t EXCEPT !.n = t.n + 1, !.w = NullWallet,
                                  !.st = IF r = "sys"
                                         THEN (IF t.n + 1 >= MaxRetry THEN "err" ELSE "get")
                                         ELSE "reread"])
    /\ UNCHANGED <<txns, credits, nextId, faults, pc, doc, cdoc, mem, tries, ret>>
    /\ UNCHANGED env

\* get_one at the tail of the payee and sub-payee loops.
TaskReread(p, r) ==
    /\ pc[p] = "c_join"
    /\ tasks[p][r].st = "reread"
    /\ TaskUid(p, r) \in DOMAIN wallets
    /\ SetTask(p, r, [tasks[p][r] EXCEPT
                         !.st = IF tasks[p][r].n >= MaxRetry THEN "err" ELSE "cas",
                         !.w = IF tasks[p][r].n >= MaxRetry THEN NullWallet
                               ELSE wallets[TaskUid(p, r)]])
    /\ UNCHANGED <<store, pc, doc, cdoc, mem, tries, ret>>
    /\ UNCHANGED env

TasksDone(p) == \A r \in Roles : tasks[p][r].st \in {"ok", "err"}

\* Faulty variant: only the payee task's result is looked at.
NoTaskErrorPayeeOnly(t) == t["payee"].st = "ok"

\* errs.is_empty()
NoTaskError(t) == \A r \in Roles : t[r].st = "ok"

\* join! returned: any error leaves the row at 2 and fails the commit.
CommitJoin(p) ==
    /\ pc[p] = "c_join"
    /\ TasksDone(p)
    /\ IF NoTaskError(tasks[p])
       THEN /\ pc' = [pc EXCEPT ![p] = "c_final"]
            /\ tasks' = [tasks EXCEPT ![p] = IdleTasks]
            /\ UNCHANGED <<doc, cdoc, mem, tries, ret>>
       ELSE Finish(p, "commit", doc[p].id, "err")
    /\ UNCHANGED store
    /\ UNCHANGED env

\* set_status(2, 3) and return Ok (whether or not the update applied).
CommitFinal(p) ==
    /\ pc[p] = "c_final"
    /\ txns' = IF StatusIs(doc[p].id, 2) THEN set_status(doc[p].id, 3) ELSE txns
    /\ Finish(p, "commit", doc[p].id, "ok")
    /\ UNCHANGED <<wallets, credits, nextId, faults, applied>>
    /\ UNCHANGED env

\* ------------------------------------------------------------- Credit::save
\* Faulty variant: an amount of 0 passes.
InvalidAmountNegative(amount) == amount < 0

\* if self.amount <= 0
InvalidAmount(amount) == amount <= 0

\* amount <= 0 is rejected before any store call.
CreditInvalid(p, uid, txn, kind, amount) ==
    /\ pc[p] = "idle"
    /\ p <= workload.procs
    /\ InvalidAmount(amount)
    /\ Finish(p, "credit", txn, "err")
    /\ UNCHANGED store
    /\ UNCHANGED env

\* get_one(wallet) and the checks that end the call without an insert.
CreditNoInsert(p, uid, txn, kind, amount) ==
    /\ pc[p] = "idle"
    /\ p <= workload.procs
    /\ ~InvalidAmount(amount)
    /\ IF uid = SYS_ID THEN Finish(p, "credit", txn, "ok")
       ELSE IF uid \notin DOMAIN wallets THEN Finish(p, "credit", txn, "err")
       ELSE IF kind = "init" /\ wallets[uid].credits > 0 THEN Finish(p, "credit", txn, "err")
       ELSE /\ wallets[uid].credits = 0 /\ kind # "init"
            /\ Finish(p, "credit", txn, "ok")
    /\ UNCHANGED store
    /\ UNCHANGED env

\* Faulty variant: the amount of the caller is kept.
SavedAmountAsGiven(kind, amount) == amount

\* if is_init { self.amount = 10; }
SavedAmount(kind, amount) == IF kind = "init" THEN InitCreditAmount ELSE amount

\* get_one(wallet); the credit passes the checks (Init forces amount 10).
CreditRead(p, uid, txn, kind, amount) ==
    /\ pc[p] = "idle"
    /\ p <= workload.procs
    /\ ~InvalidAmount(amount)
    /\ uid # SYS_ID
    /\ uid \in DOMAIN wallets
    /\ Cardinality(DOMAIN credits) < CreditCap
    /\ IF kind = "init" THEN wallets[uid].credits = 0 ELSE wallets[uid].credits # 0
    /\ cdoc' = [cdoc EXCEPT ![p] =
                   [uid |-> uid, txn |-> txn, kind |-> kind,
                    amount |-> SavedAmount(kind, amount)]]
    /\ pc' = [pc EXCEPT ![p] = "k_insert"]
    /\ UNCHANGED ret
    /\ UNCHANGED <<store, doc, mem, tries, tasks>>
    /\ UNCHANGED env

\* INSERT INTO credit ... IF NOT EXISTS; an existing row ends the call.
CreditInsert(p) ==
    /\ pc[p] = "k_insert"
    /\ LET k == <<cdoc[p].uid, cdoc[p].txn>> IN
       IF k \in DOMAIN credits
       THEN /\ Finish(p, "credit", cdoc[p].txn, "ok")
            /\ UNCHANGED credits
       ELSE /\ credits' = credits @@ (k :> [kind |-> cdoc[p].kind, amount |-> cdoc[p].amount])
            /\ pc' = [pc EXCEPT ![p] = "k_get"]
            /\ UNCHANGED <<doc, cdoc, mem, tries, tasks, ret>>
    /\ UNCHANGED <<wallets, txns, nextId, faults, applied>>
    /\ UNCHANGED env

\* wallet.get_one at the head of the counter loop.
CreditGet(p) ==
    /\ pc[p] = "k_get"
    /\ cdoc[p].uid \in DOMAIN wallets
    /\ mem' = [mem EXCEPT ![p] = wallets[cdoc[p].uid]]
    /\ pc' = [pc EXCEPT ![p] = "k_cas"]
    /\ UNCHANGED <<store, doc, cdoc, tries, tasks, ret>>
    /\ UNCHANGED env

\* Faulty variant: UPDATE wallet SET credits=? without the IF.
CreditsCasUnguarded(w) == w.uid \in DOMAIN wallets

\* ... IF credits=? : the stored counter is the one that was read.
CreditsCasApplies(w) == w.uid \in DOMAIN wallets /\ wallets[w.uid].credits = w.credits

\* Faulty variant: the end of the loop is logged and the call succeeds.
CounterLoopEndSilent == "ok"

\* After the loop: log::error! and Err(500, "add_credit failed").
CounterLoopEnd == "err"

\* UPDATE wallet SET credits=? WHERE uid=? IF credits=?
CreditCas(p) ==
    /\ pc[p] = "k_cas"
    /\ IF CreditsCasApplies(mem[p])
       THEN /\ wallets' = [wallets EXCEPT ![mem[p].uid].credits = cdoc[p].amount + mem[p].credits]
            /\ Finish(p, "credit", cdoc[p].txn, "ok")
       ELSE /\ UNCHANGED wallets
            /\ IF tries[p] + 1 >= MaxRetry
               THEN Finish(p, "credit", cdoc[p].txn, CounterLoopEnd)
               ELSE /\ tries' = [tries EXCEPT ![p] = @ + 1]
                    /\ pc' = [pc EXCEPT ![p] = "k_get"]
                    /\ mem' = [mem EXCEPT ![p] = NullWallet]
                    /\ UNCHANGED <<doc, cdoc, tasks, ret>>
    /\ UNCHANGED <<txns, credits, nextId, faults, applied>>
    /\ UNCHANGED env

\* ------------------------------------------------------------- store errors
OpOf(l) ==
    CASE l \in {"p_insert", "p_update", "p_status", "p_delete"} -> "prepare"
      [] l \in {"cancel", "x_status", "x_get", "x_cas", "x_final"} -> "cancel"
      [] l \in {"commit", "c_status", "c_payee_save", "c_final"} -> "commit"
      [] l \in {"k_insert", "k_get", "k_cas"} -> "credit"

ErrPcs ==
    {"p_insert", "p_update", "p_status", "p_delete",
     "cancel", "x_status", "x_get", "x_cas", "x_final",
     "commit", "c_status", "c_payee_save", "c_final",
     "k_insert", "k_get", "k_cas"}

\* A store call of the main path fails: `?` returns the error at once and
\* the call wrote nothing.
StoreError(p) ==
    /\ pc[p] \in ErrPcs
    /\ faults < workload.faults
    /\ faults' = faults + 1
    /\ Finish(p, OpOf(pc[p]), IF OpOf(pc[p]) = "credit" THEN cdoc[p].txn ELSE doc[p].id, "err")
    /\ UNCHANGED <<wallets, txns, credits, nextId, applied>>
    /\ UNCHANGED env

\* payee_wallet.get_one fails: res.is_err() leads to save.
StoreErrorPayeeGet(p) ==
    /\ pc[p] = "c_payee_get"
    /\ faults < workload.faults
    /\ faults' = faults + 1
    /\ mem' = [mem EXCEPT ![p] = WalletWithPk(doc[p].payee)]
    /\ pc' = [pc EXCEPT ![p] = "c_payee_save"]
    /\ UNCHANGED <<wallets, txns, credits, nextId, applied, doc, cdoc, tries, tasks, ret>>
    /\ UNCHANGED env

\* A store call of a commit sub-task fails: the sub-task ends with an
\* error (a failed first get_one of the sub-payee leads to save).
StoreErrorTask(p, r) ==
    /\ pc[p] = "c_join"
    /\ tasks[p][r].st \in {"get", "save", "cas", "reread"}
    /\ faults < workload.faults
    /\ faults' = faults + 1
    /\ IF r = "sub" /\ tasks[p][r].st = "get" /\ tasks[p][r].n = 0
       THEN SetTask(p, r, [tasks[p][r] EXCEPT !.st = "save", !.w = WalletWithPk(TaskUid(p, r))])
       ELSE SetTask(p, r, [tasks[p][r] EXCEPT !.st = "err", !.w = NullWallet])
    /\ UNCHANGED <<wallets, txns, credits, nextId, applied, pc, doc, cdoc, mem, tries, ret>>
    /\ UNCHANGED env

\* ------------------------------------------------------------ specification
Next ==
    \/ \E p \in Procs, q \in workload.reqs : PrepareInvalid(p, q[1], q[2], q[3], q[4], q[5])
    \/ \E p \in Procs, q \in workload.reqs : PrepareRefused(p, q[1], q[2], q[3], q[4], q[5])
    \/ \E p \in Procs, q \in workload.reqs : PrepareRead(p, q[1], q[2], q[3], q[4], q[5])
    \/ \E p \in Procs : PrepareInsert(p)
    \/ \E p \in Procs : PrepareUpdate(p)
    \/ \E p \in Procs : PrepareSetStatus(p)
    \/ \E p \in Procs : PrepareDelete(p)
    \/ \E p \in Procs, id \in Ids, op \in {"commit", "cancel"} : Load(p, id, op)
    \/ \E p \in Procs : CancelReject(p)
    \/ \E p \in Procs : CancelCas(p)
    \/ \E p \in Procs : CancelReadStatus(p)
    \/ \E p \in Procs : CancelGet(p)
    \/ \E p \in Procs : CancelUpdate(p)
    \/ \E p \in Procs : CancelFinal(p)
    \/ \E p \in Procs : CommitCas(p)
    \/ \E p \in Procs : CommitReadStatus(p)
    \/ \E p \in Procs : CommitPayeeGet(p)
    \/ \E p \in Procs : CommitPayeeSave(p)
    \/ \E p \in Procs, r \in Roles : TaskGet(p, r)
    \/ \E p \in Procs, r \in Roles : TaskSave(p, r)
    \/ \E p \in Procs, r \in Roles : TaskCas(p, r)
    \/ \E p \in Procs, r \in Roles : TaskReread(p, r)
    \/ \E p \in Procs : CommitJoin(p)
    \/ \E p \in Procs : CommitFinal(p)
    \/ \E p \in Procs, c \in workload.creds : CreditInvalid(p, c[1], c[2], c[3], c[4])
    \/ \E p \in Procs, c \in workload.creds : CreditNoInsert(p, c[1], c[2], c[3], c[4])
    \/ \E p \in Procs, c \in workload.creds : CreditRead(p, c[1], c[2], c[3], c[4])
    \/ \E p \in Procs : CreditInsert(p)
    \/ \E p \in Procs : CreditGet(p)
    \/ \E p \in Procs : CreditCas(p)
    \/ \E p \in Procs : StoreError(p)
    \/ \E p \in Procs : StoreErrorPayeeGet(p)
    \/ \E p \in Procs, r \in Roles : StoreErrorTask(p, r)
    \/ \E p \in Procs : Return(p)

Spec == Init /\ [][Next]_vars

\* ------------------------------------------------------- out-of-band writes
\* A write that bypasses the ledger: one bucket of a wallet with
\* sequence >= 1 is changed and the checksum is left as it was.  It happens
\* between operations, so that every operation that meets the changed row
\* read it after the write.
Tamper(u, bucket) ==
    /\ \A p \in Procs : pc[p] = "idle"
    /\ \A v \in DOMAIN wallets : verify_checksum(wallets[v])
    /\ u \in DOMAIN wallets
    /\ wallets[u].sequence >= 1
    /\ wallets' = [wallets EXCEPT ![u][bucket] = @ + TamperAmount]
    /\ UNCHANGED <<txns, credits, nextId, faults, applied>>
    /\ UNCHANGED locals
    /\ UNCHANGED env

NextTamper ==
    \/ Next
    \/ \E u \in {SYS_ID, 1, 2, 3}, bucket \in {"award", "topup", "income"} : Tamper(u, bucket)

\* Out-of-band writes are explored on the funded store, where wallets with
\* sequence >= 1 exist from the start.
InitTamper ==
    /\ Init
    /\ ~workload.fresh
    /\ workload.procs = 1 \/ (workload.creds # {} /\ workload.reqs # {})

SpecTamper == InitTamper /\ [][NextTamper]_vars

\* ----------------------------------------------- a cancel out of retries
InitStuck ==
    /\ workload = StuckWorkload
    /\ wallets = FundedWallets
    /\ txns = FundedTxns
    /\ credits = FundedCredits
    /\ applied = FundedApplied
    /\ nextId = HistTxn + 1
    /\ faults = 0
    /\ pc = [p \in Procs |-> "idle"]
    /\ doc = [p \in Procs |-> NullDoc]
    /\ cdoc = [p \in Procs |-> NullCredit]
    /\ mem = [p \in Procs |-> NullWallet]
    /\ tries = [p \in Procs |-> 0]
    /\ tasks = [p \in Procs |-> IdleTasks]
    /\ ret = [p \in Procs |-> NoRet]
    /\ charges = <<>>
    /\ now = 0
    /\ hdoc = [p \in Procs |-> NullHandler]
    /\ topups = <<>>
    /\ arg = NoArg
    /\ out = NoOut

NextStuck ==
    \/ \E p \in Procs, q \in workload.reqs : PrepareRead(p, q[1], q[2], q[3], q[4], q[5])
    \/ \E p \in Procs : PrepareInsert(p)
    \/ \E p \in Procs : PrepareUpdate(p)
    \/ \E p \in Procs : PrepareSetStatus(p)
    \/ \E p \in Procs : PrepareDelete(p)
    \/ \E p \in Procs, id \in Ids : Load(p, id, "cancel")
    \/ \E p \in Procs : CancelReject(p)
    \/ \E p \in Procs : CancelCas(p)
    \/ \E p \in Procs : CancelReadStatus(p)
    \/ \E p \in Procs : CancelGet(p)
    \/ \E p \in Procs : CancelUpdate(p)
    \/ \E p \in Procs : CancelFinal(p)
    \/ \E p \in Procs : Return(p)

SpecStuck == InitStuck /\ [][NextStuck]_vars

\* ---------------------------------------------- loops out of retries
InitRetry ==
    /\ workload \in RetryWorkloads
    /\ wallets = FundedWallets
    /\ txns = FundedTxns
    /\ credits = FundedCredits
    /\ applied = FundedApplied
    /\ nextId = HistTxn + 1
    /\ faults = 0
    /\ pc = [p \in Procs |-> "idle"]
    /\ doc = [p \in Procs |-> NullDoc]
    /\ cdoc = [p \in Procs |-> NullCredit]
    /\ mem = [p \in Procs |-> NullWallet]
    /\ tries = [p \in Procs |-> 0]
    /\ tasks = [p \in Procs |-> IdleTasks]
    /\ ret = [p \in Procs |-> NoRet]
    /\ charges = <<>>
    /\ now = 0
    /\ hdoc = [p \in Procs |-> NullHandler]
    /\ topups = <<>>
    /\ arg = NoArg
    /\ out = NoOut

\* In the commit workload caller 1 handles the transactions the system
\* pays and the other caller those a user pays.
Turn(p, uid) == workload = CommitRetryWorkload => (p = 1 <=> uid = SYS_ID)

NextRetry ==
    \/ \E p \in Procs, q \in workload.reqs :
          Turn(p, q[1]) /\ PrepareRead(p, q[1], q[2], q[3], q[4], q[5])
    \/ \E p \in Procs : PrepareInsert(p)
    \/ \E p \in Procs : PrepareUpdate(p)
    \/ \E p \in Procs : PrepareSetStatus(p)
    \/ \E p \in Procs : PrepareDelete(p)
    \/ \E p \in Procs, id \in Ids :
          /\ id \in DOMAIN txns
          /\ txns[id].uid # SYS_ID
          /\ Turn(p, txns[id].uid)
          /\ Load(p, id, "cancel")
    \/ \E p \in Procs : CancelReject(p)
    \/ \E p \in Procs : CancelCas(p)
    \/ \E p \in Procs : CancelReadStatus(p)
    \/ \E p \in Procs : CancelGet(p)
    \/ \E p \in Procs : CancelUpdate(p)
    \/ \E p \in Procs : CancelFinal(p)
    \/ \E p \in Procs, id \in Ids :
          /\ workload = CommitRetryWorkload
          /\ id \in DOMAIN txns
          /\ txns[id].uid = SYS_ID
          /\ Turn(p, SYS_ID)
          /\ Load(p, id, "commit")
    \/ \E p \in Procs : CommitCas(p)
    \/ \E p \in Procs : CommitReadStatus(p)
    \/ \E p \in Procs : CommitPayeeGet(p)
    \/ \E p \in Procs, r \in Roles : TaskCas(p, r)
    \/ \E p \in Procs, r \in Roles : TaskReread(p, r)
    \/ \E p \in Procs : CommitJoin(p)
    \/ \E p \in Procs : CommitFinal(p)
    \/ \E p \in Procs, c \in workload.creds : CreditRead(p, c[1], c[2], c[3], c[4])
    \/ \E p \in Procs : CreditInsert(p)
    \/ \E p \in Procs : CreditGet(p)
    \/ \E p \in Procs : CreditCas(p)
    \/ \E p \in Procs : Return(p)

SpecRetry == InitRetry /\ [][NextRetry]_vars

\* ------------------------------------------- one caller, no store errors
\* One caller issues the requests one after the other and no store call
\* fails, from the empty and from the funded store.
LiveWorkloads ==
    {[fresh |-> f, procs |-> 1, reqs |-> Requests, creds |-> {}, faults |-> 0] :
        f \in BOOLEAN}

InitLive ==
    /\ workload \in LiveWorkloads
    /\ IF workload.fresh
       THEN /\ wallets = FreshWallets
            /\ txns = <<>>
            /\ credits = <<>>
            /\ applied = [i \in Ids |-> NoApplied]
       ELSE /\ wallets = FundedWallets
            /\ txns = FundedTxns
            /\ credits = FundedCredits
            /\ applied = FundedApplied
    /\ nextId = HistTxn + 1
    /\ faults = 0
    /\ pc = [p \in Procs |-> "idle"]
    /\ doc = [p \in Procs |-> NullDoc]
    /\ cdoc = [p \in Procs |-> NullCredit]
    /\ mem = [p \in Procs |-> NullWallet]
    /\ tries = [p \in Procs |-> 0]
    /\ tasks = [p \in Procs |-> IdleTasks]
    /\ ret = [p \in Procs |-> NoRet]
    /\ charges = <<>>
    /\ now = 0
    /\ hdoc = [p \in Procs |-> NullHandler]
    /\ topups = <<>>
    /\ arg = NoArg
    /\ out = NoOut

\* A caller invokes prepare, commit or cancel.
Invoke(p) ==
    \/ \E q \in workload.reqs : PrepareInvalid(p, q[1], q[2], q[3], q[4], q[5])
    \/ \E q \in workload.reqs : PrepareRefused(p, q[1], q[2], q[3], q[4], q[5])
    \/ \E q \in workload.reqs : PrepareRead(p, q[1], q[2], q[3], q[4], q[5])
    \/ \E id \in Ids, op \in {"commit", "cancel"} : Load(p, id, op)

\* The next store call of the operation that caller p is in returns and the
\* operation goes on, or its result goes back to the caller.
Advance(p) ==
    \/ PrepareInsert(p)
    \/ PrepareUpdate(p)
    \/ PrepareSetStatus(p)
    \/ CancelReject(p)
    \/ CancelCas(p)
    \/ CancelGet(p)
    \/ CancelUpdate(p)
    \/ CancelFinal(p)
    \/ CommitCas(p)
    \/ CommitReadStatus(p)
    \/ CommitPayeeGet(p)
    \/ CommitPayeeSave(p)
    \/ \E r \in Roles : TaskGet(p, r)
    \/ \E r \in Roles : TaskSave(p, r)
    \/ \E r \in Roles : TaskCas(p, r)
    \/ CommitJoin(p)
    \/ CommitFinal(p)
    \/ Return(p)

NextLive == \E p \in Procs : Invoke(p) \/ Advance(p)

\* The runtime polls every future that can go on, and a store call that
\* does not fail returns: a started operation is not left waiting for ever.
\* When a caller invokes the next operation is up to the caller.
Fairness == \A p \in Procs : WF_vars(Advance(p))

SpecLive == InitLive /\ [][NextLive]_vars /\ Fairness

\* ------------------------------------------------------- prepare's arguments
Uids == {SYS_ID, 1, 2}
Kinds == {"award", "topup", "refund", "withdraw", "spend", "sponsor", "subscribe"}

\* Every combination of payer, payee, sub-payee, kind and amount.
AllRequests ==
    {<<uid, payee, sub, kind, amount>> :
        uid \in Uids, payee \in Uids, sub \in Uids \cup {NoId}, kind \in Kinds,
        amount \in {-1, 0, 10}}

\* One request for each way the arguments can be wrong.
InvalidRequests ==
    {<<0, 1, NoId, "award", 0>>,
     <<1, 2, NoId, "topup", 10>>,
     <<1, 2, NoId, "spend", 10>>,
     <<0, 1, NoId, "sponsor", 10>>,
     <<1, 0, 2, "refund", 10>>,
     <<1, 2, 2, "sponsor", 10>>,
     <<1, 2, 1, "subscribe", 10>>,
     <<1, 2, 0, "subscribe", 10>>}

\* The requests of user 1 for the smallest amount under the kinds that
\* take a fee.
UnitRequests ==
    {<<1, payee, sub, kind, 1>> :
        payee \in Uids, sub \in {NoId, 2}, kind \in {"withdraw", "sponsor", "subscribe"}}

\* One caller that tries every combination while a store call may fail,
\* one caller with wrong arguments only, two callers whose prepares meet on
\* the payer wallet, or one caller with the smallest amounts.
PrepareWorkloads ==
    {[fresh |-> FALSE, procs |-> 1, reqs |-> AllRequests, creds |-> {}, faults |-> MaxFaults],
     [fresh |-> FALSE, procs |-> 1, reqs |-> InvalidRequests, creds |-> {}, faults |-> 0],
     [fresh |-> FALSE, procs |-> NumProcs, faults |-> 0, creds |-> {},
      reqs |-> {<<1, 0, NoId, "spend", 10>>, <<1, 0, 2, "spend", 10>>}],
     [fresh |-> FALSE, procs |-> 1, reqs |-> UnitRequests, creds |-> {}, faults |-> 0]}

InitPrepare ==
    /\ workload \in PrepareWorkloads
    /\ wallets = FundedWallets
    /\ txns = FundedTxns
    /\ credits = FundedCredits
    /\ applied = FundedApplied
    /\ nextId = HistTxn + 1
    /\ faults = 0
    /\ pc = [p \in Procs |-> "idle"]
    /\ doc = [p \in Procs |-> NullDoc]
    /\ cdoc = [p \in Procs |-> NullCredit]
    /\ mem = [p \in Procs |-> NullWallet]
    /\ tries = [p \in Procs |-> 0]
    /\ tasks = [p \in Procs |-> IdleTasks]
    /\ ret = [p \in Procs |-> NoRet]
    /\ charges = <<>>
    /\ now = 0
    /\ hdoc = [p \in Procs |-> NullHandler]
    /\ topups = <<>>
    /\ arg = NoArg
    /\ out = NoOut

NextPrepare ==
    \/ \E p \in Procs, q \in workload.reqs : PrepareInvalid(p, q[1], q[2], q[3], q[4], q[5])
    \/ \E p \in Procs, q \in workload.reqs : PrepareRefused(p, q[1], q[2], q[3], q[4], q[5])
    \/ \E p \in Procs, q \in workload.reqs : PrepareRead(p, q[1], q[2], q[3], q[4], q[5])
    \/ \E p \in Procs : PrepareInsert(p)
    \/ \E p \in Procs : PrepareUpdate(p)
    \/ \E p \in Procs : PrepareSetStatus(p)
    \/ \E p \in Procs : PrepareDelete(p)
    \/ \E p \in Procs : StoreError(p)
    \/ \E p \in Procs : Return(p)

SpecPrepare == InitPrepare /\ [][NextPrepare]_vars

\* ------------------------------------------------- functions on their own
\* Faulty variant: the payee's Income credit leaves out the sub-payee's
\* share.
credits_of_gross(t) ==
    IF t.status # 3 \/ t.uid = SYS_ID \/ t.kind \notin Kinds THEN <<>>
    ELSE (IF t.kind \in {"spend", "sponsor", "subscribe"}
          THEN <<[uid |-> t.uid, txn |-> t.id, kind |-> "payout", amount |-> t.amount]>>
          ELSE <<>>)
         \o (IF t.kind \in {"sponsor", "subscribe"}
             THEN <<[uid |-> t.payee, txn |-> t.id, kind |-> "income",
                     amount |-> t.amount - t.sys_fee]>>
                  \o (IF t.sub_shares > 0 /\ t.sub_payee # NoId
                      THEN <<[uid |-> t.sub_payee, txn |-> t.id, kind |-> "income",
                              amount |-> t.sub_shares]>>
                      ELSE <<>>)
             ELSE <<>>)

\* Transaction::credits: the credits the caller is to save after a commit.
credits_of(t) ==
    IF t.status # 3 \/ t.uid = SYS_ID \/ t.kind \notin Kinds THEN <<>>
    ELSE (IF t.kind \in {"spend", "sponsor", "subscribe"}
          THEN <<[uid |-> t.uid, txn |-> t.id, kind |-> "payout", amount |-> t.amount]>>
          ELSE <<>>)
         \o (IF t.kind \in {"sponsor", "subscribe"}
             THEN <<[uid |-> t.payee, txn |-> t.id, kind |-> "income",
                     amount |-> t.amount - t.sys_fee - t.sub_shares]>>
                  \o (IF t.sub_shares > 0 /\ t.sub_payee # NoId
                      THEN <<[uid |-> t.sub_payee, txn |-> t.id, kind |-> "income",
                              amount |-> t.sub_shares]>>
                      ELSE <<>>)
             ELSE <<>>)

\* The rows prepare can write, at every status a row can have: every valid
\* combination of payer, payee, sub-payee and kind, for a payer with few
\* and with many credits.
CreditsArgs ==
    {[NoArg EXCEPT
         !.fn = "credits",
         !.t = [NewTransaction(q[1], HistTxn + 1, [WalletWithPk(q[1]) EXCEPT !.credits = c],
                               q[2], q[3], q[4], q[5])
                EXCEPT !.status = st]] :
        q \in {r \in {<<uid, payee, sub, kind, amount>> :
                         uid \in Uids, payee \in Uids, sub \in Uids \cup {NoId},
                         kind \in Kinds, amount \in {1, 10, 100}} :
                  PrepareValid(r[1], r[2], r[3], r[4], r[5])},
        c \in {10, 10000},
        st \in {-2, -1, 0, 1, 2, 3}}

\* Calls of fee_and_shares: every kind, with and without a sub-payee, at
\* both ends of every bracket of income_fee_rate (credits = hi * Billion +
\* lo, in arg.hi and arg.w.credits).
FeeAmounts == {1, 100, 101, 300, 1000, 10000}

FeeCredits ==
    {<<0, 0>>, <<0, 9999>>, <<0, 10000>>, <<0, 99999>>, <<0, 100000>>, <<0, 999999>>,
     <<0, 1000000>>, <<0, 9999999>>, <<0, 10000000>>, <<0, 99999999>>,
     <<0, 100000000>>, <<0, 999999999>>, <<1, 0>>, <<9, 999999999>>, <<10, 0>>}

FeeArgs ==
    {[NoArg EXCEPT
         !.fn = "fee_and_shares",
         !.t = [NullDoc EXCEPT !.kind = kind, !.amount = amount],
         !.w = [NullWallet EXCEPT !.credits = c[2]],
         !.hi = c[1],
         !.has = has] :
        kind \in Kinds, amount \in FeeAmounts, c \in FeeCredits, has \in BOOLEAN}

\* fee_and_shares is called.
ApplyFeeAndShares ==
    /\ arg.fn = "fee_and_shares"
    /\ out = NoOut
    /\ out' = [NoOut EXCEPT
                  !.fn = "fee_and_shares",
                  !.fee = fee_and_shares_i64(arg.t.kind, arg.t.amount, arg.hi,
                                             arg.w.credits, arg.has)]
    /\ UNCHANGED <<store, locals>>
    /\ UNCHANGED <<workload, charges, now, hdoc, topups, arg>>

\* Payer wallets of the system and of a user, without and with credits,
\* with empty, filled and overdrawn buckets.
PayerWallets ==
    {[WalletWithPk(u) EXCEPT !.credits = c, !.award = a, !.topup = t, !.income = i] :
        u \in {SYS_ID, 1}, c \in {0, 10}, a \in {0, 40}, t \in {-MAX_OVERDRAW, -10, 0, 30},
        i \in {0, 20}}

\* Amounts at both sides of every bucket, balance and overdraw limit of
\* PayerWallets.
PayerAmounts == {1, 20, 21, 30, 31, 50, 51, 90, 91, 150, 151, 190, 191}

SubPayerArgs ==
    {[NoArg EXCEPT
         !.fn = "sub_payer_balance",
         !.t = [NullDoc EXCEPT !.kind = kind, !.amount = amount],
         !.w = w] :
        kind \in Kinds, amount \in PayerAmounts, w \in PayerWallets}

\* sub_payer_balance is called on a wallet.
ApplySubPayerBalance ==
    /\ arg.fn = "sub_payer_balance"
    /\ out = NoOut
    /\ LET r == sub_payer_balance(arg.t.kind, arg.w, arg.t.amount)
       IN out' = [NoOut EXCEPT !.fn = "sub_payer_balance", !.ok = r.ok, !.w = r.w]
    /\ UNCHANGED <<store, locals>>
    /\ UNCHANGED <<workload, charges, now, hdoc, topups, arg>>

\* credits() is called on a row.
ApplyCredits ==
    /\ arg.fn = "credits"
    /\ out = NoOut
    /\ out' = [NoOut EXCEPT !.fn = "credits", !.list = credits_of(arg.t)]
    /\ UNCHANGED <<store, locals>>
    /\ UNCHANGED <<workload, charges, now, hdoc, topups, arg>>

\* No caller and no request: the functions are called on their own.
FnWorkload == [fresh |-> TRUE, procs |-> 0, reqs |-> {}, creds |-> {}, faults |-> 0]

InitFn ==
    /\ workload = FnWorkload
    /\ wallets = FreshWallets
    /\ txns = <<>>
    /\ credits = <<>>
    /\ applied = [i \in Ids |-> NoApplied]
    /\ nextId = HistTxn + 1
    /\ faults = 0
    /\ pc = [p \in Procs |-> "idle"]
    /\ doc = [p \in Procs |-> NullDoc]
    /\ cdoc = [p \in Procs |-> NullCredit]
    /\ mem = [p \in Procs |-> NullWallet]
    /\ tries = [p \in Procs |-> 0]
    /\ tasks = [p \in Procs |-> IdleTasks]
    /\ ret = [p \in Procs |-> NoRet]
    /\ charges = <<>>
    /\ now = 0
    /\ hdoc = [p \in Procs |-> NullHandler]
    /\ topups = <<>>
    /\ out = NoOut
    /\ \/ arg \in CreditsArgs
       \/ arg \in FeeArgs
       \/ arg \in SubPayerArgs

NextFn ==
    \/ ApplyCredits
    \/ ApplyFeeAndShares
    \/ ApplySubPayerBalance

SpecFn == InitFn /\ [][NextFn]_vars

\* ------------------------------------------------------------------ charges
\* The charge requests of a run: <<uid, quantity, charge_id>>; an empty
\* charge_id is a charge created before the provider's checkout exists.
ChargeRequests == {<<1, 10, "">>, <<1, 10, "ch">>, <<2, 20, "ch">>}

ChargeIds == 1 .. MaxCharges

\* One caller of all the charge handlers while the clock runs and a store
\* call may fail, or concurrent callers that create and complete the charges
\* of one user at one instant. The store starts with the system wallet only.
ChargeWorkloads ==
    {[fresh |-> TRUE, procs |-> 1, reqs |-> {}, creds |-> {}, faults |-> MaxFaults,
      charges |-> ChargeRequests, clock |-> MaxNow, readers |-> TRUE],
     [fresh |-> TRUE, procs |-> NumProcs, reqs |-> {}, creds |-> {}, faults |-> 0,
      charges |-> {<<1, 10, "ch">>}, clock |-> 0, readers |-> FALSE]}

\* The handler of process p returns res; the in-memory charge stays with
\* the response until the caller has taken it.
FinishCharge(p, op, res) ==
    /\ Finish(p, op, hdoc[p].c.id, res)

\* Faulty variant: the stored status is not looked at.
RenderAnyStatus(c, t) ==
    IF c.expire_at > 0 /\ c.expire_at <= t THEN [c EXCEPT !.status = -2] ELSE c

\* What a reader shows of a charge at time t.
Render(c, t) ==
    IF (c.status = 0 \/ c.status = 1) /\ c.expire_at > 0 /\ c.expire_at <= t
    THEN [c EXCEPT !.status = -2]
    ELSE c

\* self.fill(&cols)
Fill(c, cols) ==
    [c EXCEPT !.status = IF "status" \in cols.set THEN cols.status ELSE @,
              !.charge_id = IF "charge_id" \in cols.set THEN cols.charge_id ELSE @,
              !.txn = IF "txn" \in cols.set THEN cols.txn ELSE @]

\* Faulty variant: the update is unconditional.
ChargeStatusIsAny(id, status) == id \in DOMAIN charges

\* UPDATE charge SET ... WHERE uid=? AND id=? IF status=?
ChargeStatusIs(id, status) == id \in DOMAIN charges /\ charges[id].status = status

\* create: status 1 when the provider's charge_id comes with the request;
\* Charge::save takes a fresh id and sets expire_at a day ahead.
ChargeCreate(p, uid, quantity, charge_id) ==
    /\ pc[p] = "idle"
    /\ p <= workload.procs
    /\ <<uid, quantity, charge_id>> \in workload.charges
    /\ Cardinality(DOMAIN charges) < MaxCharges
    /\ LET id == Cardinality(DOMAIN charges) + 1
           c == [uid |-> uid, id |-> id, status |-> IF charge_id = "" THEN 0 ELSE 1,
                 quantity |-> quantity, expire_at |-> now + ExpireAfter,
                 charge_id |-> charge_id, txn |-> NoId]
       IN /\ charges' = charges @@ (id :> c)
          /\ topups' = topups @@ (id :> {})
          /\ hdoc' = [hdoc EXCEPT ![p] = [NullHandler EXCEPT !.c = c, !.step = "create"]]
          /\ Finish(p, "create", id, "ok")
    /\ UNCHANGED store
    /\ UNCHANGED <<workload, now, arg, out>>

\* get: get_one, then the expiry rendering on the in-memory charge.
ChargeGet(p, id) ==
    /\ pc[p] = "idle"
    /\ p <= workload.procs
    /\ workload.readers
    /\ IF id \in DOMAIN charges
       THEN /\ hdoc' = [hdoc EXCEPT ![p] =
                           [NullHandler EXCEPT !.c = Render(charges[id], now), !.step = "get"]]
            /\ Finish(p, "get", id, "ok")
       ELSE /\ hdoc' = [hdoc EXCEPT ![p] = [NullHandler EXCEPT !.step = "get"]]
            /\ Finish(p, "get", id, "err")
    /\ UNCHANGED store
    /\ UNCHANGED <<workload, charges, now, topups, arg, out>>

\* list: the user's rows, each rendered as get renders it.
ChargeList(p, uid) ==
    /\ pc[p] = "idle"
    /\ p <= workload.procs
    /\ workload.readers
    /\ hdoc' = [hdoc EXCEPT ![p] =
                   [NullHandler EXCEPT
                       !.step = "list",
                       !.rows = {<<id, Render(charges[id], now).status>> :
                                    id \in {i \in DOMAIN charges : charges[i].uid = uid}}]]
    /\ Finish(p, "list", NoId, "ok")
    /\ UNCHANGED store
    /\ UNCHANGED <<workload, charges, now, topups, arg, out>>

\* unix_ms() moves on.
Tick ==
    /\ now < workload.clock
    /\ now' = now + 1
    /\ UNCHANGED <<store, locals>>
    /\ UNCHANGED <<workload, charges, hdoc, topups, arg, out>>

\* The column maps of the update requests of a run: none, or a status.
UpdateCols ==
    {NoCols} \cup {[NoCols EXCEPT !.set = {"status"}, !.status = s] : s \in -3 .. 3}

\* Column maps that name a column of the row outside valid_fields, as a
\* caller of Charge::update other than the handlers can hand over.
ForeignCols ==
    {[NoCols EXCEPT !.set = {"quantity"}],
     [NoCols EXCEPT !.set = {"status", "quantity"}, !.status = 1]}

\* The columns of valid_fields that the model's charge row has.
valid_fields == {"status", "charge_id", "txn"}

\* input.validate(): current_status in 0..=1, status in -2..=1.
ValidateInput(current_status, cols) ==
    /\ current_status \in 0 .. 1
    /\ "status" \in cols.set => cols.status \in -2 .. 1

\* Faulty variant: the status test of into() is left out.
IntoColsAnyStatus(cols) == cols.set # {}

\* UpdateChargeInput::into: status -1 or above 1, or no column at all, is
\* an error.
IntoCols(cols) ==
    /\ "status" \in cols.set => ~(cols.status = -1 \/ cols.status > 1)
    /\ cols.set # {}

\* update: validate() and into() on the input, then Charge::update with
\* current_status as the expected status.
ChargeUpdate(p, id, current_status, cols) ==
    /\ pc[p] = "idle"
    /\ p <= workload.procs
    /\ workload.readers
    /\ id \in DOMAIN charges
    /\ LET h == [NullHandler EXCEPT
                    !.c = [NullCharge EXCEPT !.uid = charges[id].uid, !.id = id],
                    !.expect = current_status,
                    !.cols = cols,
                    !.step = "update"]
       IN /\ hdoc' = [hdoc EXCEPT ![p] = h]
          /\ IF ValidateInput(current_status, cols) /\ IntoCols(cols)
             THEN /\ pc' = [pc EXCEPT ![p] = "h_get"]
                  /\ UNCHANGED <<doc, cdoc, mem, tries, tasks, ret>>
             ELSE Finish(p, "update", id, "err")
    /\ UNCHANGED store
    /\ UNCHANGED <<workload, charges, now, topups, arg, out>>

\* Charge::update called with a column map of the caller's own making.
ChargeUpdateColumns(p, id, status, cols) ==
    /\ pc[p] = "idle"
    /\ p <= workload.procs
    /\ workload.readers
    /\ id \in DOMAIN charges
    /\ hdoc' = [hdoc EXCEPT ![p] =
                   [NullHandler EXCEPT
                       !.c = [NullCharge EXCEPT !.uid = charges[id].uid, !.id = id],
                       !.expect = status,
                       !.cols = cols,
                       !.step = "columns"]]
    /\ pc' = [pc EXCEPT ![p] = "h_get"]
    /\ UNCHANGED <<store, doc, cdoc, mem, tries, tasks, ret>>
    /\ UNCHANGED <<workload, charges, now, topups, arg, out>>

\* complete: get_one, the charge_id comparison, then Charge::update(.., 1)
\* with status 2.
CompleteStart(p, id, charge_id) ==
    /\ pc[p] = "idle"
    /\ p <= workload.procs
    /\ id \in DOMAIN charges
    /\ IF charges[id].charge_id # charge_id
       THEN /\ hdoc' = [hdoc EXCEPT ![p] =
                           [NullHandler EXCEPT !.c = [charges[id] EXCEPT !.txn = NoId],
                                               !.step = "complete1"]]
            /\ Finish(p, "complete", id, "err")
       ELSE /\ hdoc' = [hdoc EXCEPT ![p] =
                           [NullHandler EXCEPT
                               !.c = [charges[id] EXCEPT !.txn = NoId],
                               !.expect = 1,
                               !.cols = [NoCols EXCEPT !.set = {"status"}, !.status = 2],
                               !.step = "complete1"]]
            /\ pc' = [pc EXCEPT ![p] = "h_get"]
            /\ UNCHANGED <<doc, cdoc, mem, tries, tasks, ret>>
    /\ UNCHANGED store
    /\ UNCHANGED <<workload, charges, now, topups, arg, out>>

OpOfStep(step) == IF step \in {"complete1", "complete2"} THEN "complete" ELSE step

\* Charge::update, first half: the columns are looked up in valid_fields,
\* then get_one(status) and the comparison with the expected status.
ChargeUpdateGet(p) ==
    /\ pc[p] = "h_get"
    /\ LET h == hdoc[p]
           status == charges[h.c.id].status
       IN IF ~(h.cols.set \subseteq valid_fields)
          THEN /\ Finish(p, OpOfStep(h.step), h.c.id, "err")
               /\ UNCHANGED hdoc
          ELSE /\ hdoc' = [hdoc EXCEPT ![p].c.status = status]
               /\ IF status # h.expect
                  THEN Finish(p, OpOfStep(h.step), h.c.id, "err")
                  ELSE /\ pc' = [pc EXCEPT ![p] = "h_cas"]
                       /\ UNCHANGED <<doc, cdoc, mem, tries, tasks, ret>>
    /\ UNCHANGED store
    /\ UNCHANGED <<workload, charges, now, topups, arg, out>>

\* Charge::update, second half: the conditional UPDATE; not applied is an
\* error, applied fills the in-memory charge and the handler goes on.
ChargeUpdateCas(p) ==
    /\ pc[p] = "h_cas"
    /\ LET h == hdoc[p]
       IN IF ChargeStatusIs(h.c.id, h.expect)
          THEN /\ charges' = [charges EXCEPT ![h.c.id] = Fill(@, h.cols)]
               /\ hdoc' = [hdoc EXCEPT ![p].c = Fill(@, h.cols)]
               /\ IF h.step = "complete1"
                  THEN /\ pc' = [pc EXCEPT ![p] = "h_prepare"]
                       /\ UNCHANGED <<doc, cdoc, mem, tries, tasks, ret>>
                  ELSE Finish(p, OpOfStep(h.step), h.c.id, "ok")
          ELSE /\ Finish(p, OpOfStep(h.step), h.c.id, "err")
               /\ UNCHANGED <<charges, hdoc>>
    /\ UNCHANGED store
    /\ UNCHANGED <<workload, now, topups, arg, out>>

\* complete calls txn.prepare(uid, Topup, doc.quantity) on a default
\* transaction, whose payer is the system: prepare up to its insert.
CompletePrepare(p) ==
    /\ pc[p] = "h_prepare"
    /\ LET c == hdoc[p].c
       IN IF /\ PrepareValid(SYS_ID, c.uid, NoId, "topup", c.quantity)
             /\ SYS_ID \in DOMAIN wallets
             /\ verify_checksum(wallets[SYS_ID])
             /\ sub_payer_balance("topup", wallets[SYS_ID], c.quantity).ok
          THEN /\ nextId <= HistTxn + MaxTxn
               /\ mem' = [mem EXCEPT ![p] =
                             sub_payer_balance("topup", wallets[SYS_ID], c.quantity).w]
               /\ doc' = [doc EXCEPT ![p] =
                             NewTransaction(SYS_ID, nextId, wallets[SYS_ID], c.uid, NoId,
                                            "topup", c.quantity)]
               /\ nextId' = nextId + 1
               /\ topups' = [topups EXCEPT ![c.id] = @ \cup {nextId}]
               /\ pc' = [pc EXCEPT ![p] = "p_insert"]
               /\ UNCHANGED <<cdoc, tries, tasks, ret>>
          ELSE /\ Finish(p, "complete", c.id, "err")
               /\ UNCHANGED <<nextId, topups>>
    /\ UNCHANGED <<wallets, txns, credits, faults, applied>>
    /\ UNCHANGED <<workload, charges, now, hdoc, arg, out>>

\* prepare returned: `?` ends complete on an error, else txn.commit runs
\* on the in-memory transaction, which prepare left at status 1.
CompleteAfterPrepare(p) ==
    /\ pc[p] = "done"
    /\ hdoc[p].step = "complete1"
    /\ ret[p].op = "prepare"
    /\ IF ret[p].res = "ok"
       THEN /\ doc' = [doc EXCEPT ![p] = [txns[ret[p].id] EXCEPT !.status = 1]]
            /\ hdoc' = [hdoc EXCEPT ![p].c.txn = ret[p].id]
            /\ pc' = [pc EXCEPT ![p] = "commit"]
            /\ ret' = [ret EXCEPT ![p] = NoRet]
            /\ UNCHANGED <<cdoc, mem, tries, tasks>>
       ELSE /\ Finish(p, "complete", hdoc[p].c.id, "err")
            /\ UNCHANGED hdoc
    /\ UNCHANGED store
    /\ UNCHANGED <<workload, charges, now, topups, arg, out>>

\* commit returned: `?` ends complete on an error, else Charge::update(.., 2)
\* with status 3 and the transaction id.
CompleteAfterCommit(p) ==
    /\ pc[p] = "done"
    /\ hdoc[p].step = "complete1"
    /\ ret[p].op = "commit"
    /\ IF ret[p].res = "ok"
       THEN /\ hdoc' = [hdoc EXCEPT
                           ![p].expect = 2,
                           ![p].cols = [NoCols EXCEPT !.set = {"status", "txn"},
                                                      !.status = 3, !.txn = ret[p].id],
                           ![p].step = "complete2"]
            /\ pc' = [pc EXCEPT ![p] = "h_get"]
            /\ ret' = [ret EXCEPT ![p] = NoRet]
            /\ UNCHANGED <<doc, cdoc, mem, tries, tasks>>
       ELSE /\ Finish(p, "complete", hdoc[p].c.id, "err")
            /\ UNCHANGED hdoc
    /\ UNCHANGED store
    /\ UNCHANGED <<workload, charges, now, topups, arg, out>>

\* A store call of Charge::update fails: `?` returns the error at once.
ChargeStoreError(p) ==
    /\ pc[p] \in {"h_get", "h_cas"}
    /\ faults < workload.faults
    /\ faults' = faults + 1
    /\ Finish(p, OpOfStep(hdoc[p].step), hdoc[p].c.id, "err")
    /\ UNCHANGED <<wallets, txns, credits, nextId, applied>>
    /\ UNCHANGED env

InitCharge ==
    /\ workload \in ChargeWorkloads
    /\ wallets = FreshWallets
    /\ txns = <<>>
    /\ credits = <<>>
    /\ applied = [i \in Ids |-> NoApplied]
    /\ nextId = HistTxn + 1
    /\ faults = 0
    /\ pc = [p \in Procs |-> "idle"]
    /\ doc = [p \in Procs |-> NullDoc]
    /\ cdoc = [p \in Procs |-> NullCredit]
    /\ mem = [p \in Procs |-> NullWallet]
    /\ tries = [p \in Procs |-> 0]
    /\ tasks = [p \in Procs |-> IdleTasks]
    /\ ret = [p \in Procs |-> NoRet]
    /\ charges = <<>>
    /\ now = 0
    /\ hdoc = [p \in Procs |-> NullHandler]
    /\ topups = <<>>
    /\ arg = NoArg
    /\ out = NoOut

\* The charge handlers, with the steps of prepare and commit that complete
\* runs through.
NextCharge ==
    \/ \E p \in Procs, q \in ChargeRequests : ChargeCreate(p, q[1], q[2], q[3])
    \/ \E p \in Procs, id \in ChargeIds : ChargeGet(p, id)
    \/ \E p \in Procs, uid \in {1, 2} : ChargeList(p, uid)
    \/ Tick
    \/ \E p \in Procs, id \in ChargeIds, cs \in -1 .. 2, cols \in UpdateCols :
          ChargeUpdate(p, id, cs, cols)
    \/ \E p \in Procs, id \in ChargeIds, cs \in 0 .. 1, cols \in ForeignCols :
          ChargeUpdateColumns(p, id, cs, cols)
    \/ \E p \in Procs, id \in ChargeIds, ch \in {"", "ch"} : CompleteStart(p, id, ch)
    \/ \E p \in Procs : ChargeUpdateGet(p)
    \/ \E p \in Procs : ChargeUpdateCas(p)
    \/ \E p \in Procs : CompletePrepare(p)
    \/ \E p \in Procs : CompleteAfterPrepare(p)
    \/ \E p \in Procs : CompleteAfterCommit(p)
    \/ \E p \in Procs : ChargeStoreError(p)
    \/ \E p \in Procs : PrepareInsert(p)
    \/ \E p \in Procs : PrepareUpdate(p)
    \/ \E p \in Procs : PrepareSetStatus(p)
    \/ \E p \in Procs : PrepareDelete(p)
    \/ \E p \in Procs : CommitCas(p)
    \/ \E p \in Procs : CommitPayeeGet(p)
    \/ \E p \in Procs : CommitPayeeSave(p)
    \/ \E p \in Procs, r \in Roles : TaskCas(p, r)
    \/ \E p \in Procs, r \in Roles : TaskReread(p, r)
    \/ \E p \in Procs : CommitJoin(p)
    \/ \E p \in Procs : CommitFinal(p)
    \/ \E p \in Procs : StoreError(p)
    \/ \E p \in Procs : StoreErrorPayeeGet(p)
    \/ \E p \in Procs, r \in Roles : StoreErrorTask(p, r)
    \/ \E p \in Procs : Return(p)

SpecCharge == InitCharge /\ [][NextCharge]_vars

\* --------------------------------------------------------------- properties
Result(op, id, res) == [op |-> op, id |-> id, res |-> res]

\* C1: for every transaction whose commit returned success (its prepare
\* did, or there would be no Prepared row to commit), the wallet writes made
\* in its name balance: the payer lost exactly amount in one write, and the
\* payee, the system wallet and the sub-payee together gained exactly amount,
\* split as amount - sys_fee - sub_shares to the payee, sys_fee to the
\* system wallet's income and sub_shares to the sub-payee's income (a
\* system payee receives its net and the fee in its one write).
C1_Conservation ==
    \A p \in Procs :
        (ret[p].op = "commit" /\ ret[p].res = "ok") =>
            LET t == txns[ret[p].id]
                a == applied[ret[p].id]
            IN /\ a.payer.n = 1 /\ Delta(a.payer) = -t.amount
               /\ a.rollback.n = 0
               /\ a.payee.n = 1 /\ a.sys.n <= 1 /\ a.sub.n <= 1
               /\ Delta(a.payer) + Delta(a.payee) + Delta(a.sys) + Delta(a.sub) = 0
               /\ a.sub.income = t.sub_shares /\ Delta(a.sub) = t.sub_shares
               /\ IF t.payee = SYS_ID
                  THEN /\ a.sys.n = 0
                       /\ Delta(a.payee) = t.amount - t.sub_shares
                  ELSE /\ a.sys.income = t.sys_fee /\ Delta(a.sys) = t.sys_fee
                       /\ Delta(a.payee) = t.amount - t.sys_fee - t.sub_shares

\* Two callers were active and a commit of a new transaction with a system
\* fee and a sub-payee share returned success.
C1_Witness ==
    \E p \in Procs :
        /\ workload.procs = NumProcs
        /\ ret[p].op = "commit" /\ ret[p].res = "ok" /\ ret[p].id > HistTxn
        /\ txns[ret[p].id].sys_fee > 0 /\ txns[ret[p].id].sub_shares > 0

\* C2: every stored wallet row with sequence > 0 carries the checksum of
\* its own stored uid, sequence, award, topup, income and txn, whatever the
\* interleaving of prepare, commit, cancel and Credit::save.
C2_ChecksumValid ==
    \A u \in DOMAIN wallets :
        wallets[u].sequence > 0 => wallets[u].checksum = tag64(wallets[u])

\* A wallet written by a transaction while a concurrent Credit::save raised
\* its credits.
C2_Witness ==
    /\ workload.procs = NumProcs
    /\ \E u \in DOMAIN wallets :
        /\ wallets[u].sequence > FundedWallets[1].sequence
        /\ wallets[u].credits > FundedWallets[1].credits

\* C3: a stored status of 3 is final: no step of prepare, commit or cancel
\* changes it or removes the row.
C3_CommittedIsFinal ==
    [][\A id \in DOMAIN txns :
          txns[id].status = 3 => (id \in DOMAIN txns' /\ txns'[id].status = 3)]_vars

\* A caller holding a Prepared copy of a row has had its conditional update
\* refused because the stored row is Committed.
C3_Witness ==
    \E p \in Procs :
        /\ pc[p] \in {"x_status", "c_status"}
        /\ doc[p].status = 1
        /\ StatusIs(doc[p].id, 3)

StatusEdges == {<<0, 1>>, <<1, 2>>, <<2, 3>>, <<1, -1>>, <<-1, -2>>}

\* C4: a row is inserted with status 0 and its stored status changes only
\* along 0->1, 1->2, 2->3, 1->-1, -1->-2; cancel invoked on a row whose
\* (in-memory) status is not 1 returns an error and changes no row.
C4_StatusEdges ==
    [][/\ \A id \in DOMAIN txns' :
             IF id \in DOMAIN txns
             THEN txns'[id].status # txns[id].status =>
                      <<txns[id].status, txns'[id].status>> \in StatusEdges
             ELSE txns'[id].status = 0
       /\ \A p \in Procs :
             (pc[p] = "cancel" /\ doc[p].status # 1 /\ pc'[p] # pc[p]) =>
                 /\ ret'[p] = Result("cancel", doc[p].id, "err")
                 /\ txns' = txns /\ wallets' = wallets]_vars

\* With no store failure and a single caller, a cancel of a Committed row
\* has returned an error.
C4_Witness ==
    \E p \in Procs :
        /\ workload.procs = 1 /\ faults = 0
        /\ ret[p].op = "cancel" /\ ret[p].res = "err"
        /\ StatusIs(ret[p].id, 3)

\* C5: the payer write of prepare stores sequence = txn.sequence + 1 and
\* txn = txn.id, and when prepare returns success the row has status 1 and
\* the payer wallet, unless written again since, still has that sequence
\* and txn.
C5_PrepareResult ==
    [][\A p \in Procs :
          /\ (pc[p] = "p_update" /\ pc'[p] = "p_status") =>
                 LET w == wallets'[doc[p].uid]
                 IN /\ w.sequence = txns'[doc[p].id].sequence + 1
                    /\ w.txn = doc[p].id
          /\ (pc[p] = "p_status" /\ ret'[p].op = "prepare" /\ ret'[p].res = "ok") =>
                 LET t == txns'[ret'[p].id]
                     w == wallets'[t.uid]
                 IN /\ t.status = 1
                    /\ WriteBalance(w, mem[p]) = w =>
                           (w.sequence = t.sequence + 1 /\ w.txn = t.id)]_vars

\* prepare has returned success on a wallet that had been written before,
\* and the payer wallet is as prepare wrote it.
C5_Witness ==
    \E p \in Procs :
        /\ ret[p].op = "prepare" /\ ret[p].res = "ok"
        /\ StatusIs(ret[p].id, 1)
        /\ txns[ret[p].id].sequence > 0
        /\ wallets[txns[ret[p].id].uid].txn = ret[p].id
        /\ wallets[txns[ret[p].id].uid].sequence = txns[ret[p].id].sequence + 1

\* Every credit the transaction owes was applied by exactly one wallet
\* write, and that write stored txn = id.
Credited(id) ==
    LET t == txns[id]
        a == applied[id]
    IN /\ a.payee.n = 1 /\ a.payee.tagged
       /\ (t.sys_fee > 0 /\ t.payee # SYS_ID) => (a.sys.n = 1 /\ a.sys.tagged)
       /\ t.sub_shares > 0 => (a.sub.n = 1 /\ a.sub.tagged)

\* C6: a row has status 3 only if every participant credit was applied by
\* a successful conditional wallet write that recorded the transaction id;
\* when a sub-task of commit has failed, commit returns an error and the row
\* stays at status 2.
C6_CommitAllOrStuck ==
    /\ [](\A id \in DOMAIN txns : txns[id].status = 3 => Credited(id))
    /\ [][\A p \in Procs :
             (/\ pc[p] = "c_join" /\ pc'[p] # "c_join"
              /\ \E r \in Roles : tasks[p][r].st = "err") =>
                 /\ ret'[p] = Result("commit", doc[p].id, "err")
                 /\ StatusIs(doc[p].id, 2)
                 /\ txns' = txns]_vars

\* A commit has returned an error after the payee was credited and the
\* system fee was not; the row is at status 2.
C6_Witness ==
    \E p \in Procs :
        /\ ret[p].op = "commit" /\ ret[p].res = "err"
        /\ StatusIs(ret[p].id, 2)
        /\ txns[ret[p].id].sys_fee > 0 /\ txns[ret[p].id].payee # SYS_ID
        /\ applied[ret[p].id].payee.n = 1
        /\ applied[ret[p].id].sys.n = 0

\* C7: commit on a row whose stored status is 3 returns success (the store
\* answering) and its steps change no wallet, transaction or credit row.
C7_CommitIdempotent ==
    [][\A p \in Procs :
          (/\ pc[p] \in {"commit", "c_status"} /\ pc'[p] # pc[p]
           /\ StatusIs(doc[p].id, 3)
           /\ faults' = faults) =>
              /\ wallets' = wallets /\ txns' = txns /\ credits' = credits
              /\ IF pc[p] = "commit"
                 THEN pc'[p] = "c_status"
                 ELSE ret'[p] = Result("commit", doc[p].id, "ok")]_vars

\* A commit of a row of the history, Committed from the start, has returned
\* success and the wallets are as they were.
C7_Witness ==
    \E p \in Procs :
        /\ ret[p].op = "commit" /\ ret[p].res = "ok" /\ ret[p].id <= HistTxn
        /\ wallets = FundedWallets

\* C8: a commit invoked on a row stuck at status 2 after a sub-task failed
\* (the payee is credited, another credit is missing, no other commit of the
\* row is in flight, the store answers) goes on to run the sub-tasks again.
C8_RecommitResumes ==
    [][\A p \in Procs :
          (/\ pc[p] = "commit" /\ pc'[p] # pc[p]
           /\ doc[p].status = 2 /\ StatusIs(doc[p].id, 2)
           /\ applied[doc[p].id].payee.n = 1 /\ ~Credited(doc[p].id)
           /\ \A q \in Procs \ {p} : doc[q].id # doc[p].id
           /\ faults' = faults) =>
              pc'[p] = "c_payee_get"]_vars

\* C9: a cancelled transaction (status -2) took amount from the payer in
\* one write and gave amount back in one write, so that the two cancel out
\* in balance(); the refund went to award for Award, to income for
\* Withdraw and to topup for every other kind, and nobody was credited.
\* With a single caller, a cancel that returned success left status -2.
C9_CancelRestores ==
    /\ \A id \in DOMAIN txns :
          txns[id].status = -2 =>
              LET t == txns[id]
                  a == applied[id]
              IN /\ a.payer.n = 1 /\ a.rollback.n = 1 /\ a.rollback.tagged
                 /\ Delta(a.payer) = -t.amount
                 /\ Delta(a.payer) + Delta(a.rollback) = 0
                 /\ a.rollback.award = (IF t.kind = "award" THEN t.amount ELSE 0)
                 /\ a.rollback.income = (IF t.kind = "withdraw" THEN t.amount ELSE 0)
                 /\ a.rollback.topup =
                        (IF t.kind \in {"award", "withdraw"} THEN 0 ELSE t.amount)
                 /\ a.payee.n = 0 /\ a.sys.n = 0 /\ a.sub.n = 0
    /\ \A p \in Procs :
          (workload.procs = 1 /\ ret[p].op = "cancel" /\ ret[p].res = "ok") =>
              StatusIs(ret[p].id, -2)

\* A Spend that prepare took from award (and as overdraw from topup) was
\* cancelled and came back on topup.
C9_Witness ==
    \E id \in DOMAIN txns :
        /\ txns[id].status = -2 /\ txns[id].kind = "spend"
        /\ applied[id].payer.award < 0
        /\ applied[id].rollback.topup = txns[id].amount

\* C10: every stored non-system wallet has award >= 0, income >= 0 and
\* topup >= -MAX_OVERDRAW.
C10_Buckets ==
    \A u \in DOMAIN wallets \ {SYS_ID} :
        /\ wallets[u].award >= 0
        /\ wallets[u].income >= 0
        /\ wallets[u].topup >= -MAX_OVERDRAW

\* A wallet overdrawn to the limit.
C10_Witness ==
    \E u \in DOMAIN wallets \ {SYS_ID} : wallets[u].topup = -MAX_OVERDRAW

Participants(t) == {t.uid, t.payee, SYS_ID, t.sub_payee} \ {NoId}

\* C11: a wallet row is never removed; a step either leaves its sequence,
\* buckets, txn and checksum as they are, or raises the sequence by exactly
\* 1 and stores as txn the id of the transaction a caller is working on, of
\* which the wallet is a participant.
C11_SequenceOrder ==
    [][\A u \in DOMAIN wallets :
          /\ u \in DOMAIN wallets'
          /\ LET w == wallets[u]
                 w2 == wallets'[u]
             IN IF w2.sequence = w.sequence
                THEN /\ w2.award = w.award /\ w2.topup = w.topup
                     /\ w2.income = w.income
                     /\ w2.txn = w.txn /\ w2.checksum = w.checksum
                ELSE /\ w2.sequence = w.sequence + 1
                     /\ \E p \in Procs :
                           /\ doc[p].id = w2.txn
                           /\ doc[p].id \in DOMAIN txns
                           /\ u \in Participants(txns[doc[p].id])]_vars

\* Starting from the store with the system wallet alone and two callers, a
\* user wallet has been written twice by different transactions.
C11_Witness ==
    /\ workload.fresh /\ workload.procs = NumProcs
    /\ \E u \in DOMAIN wallets \ {SYS_ID} :
          wallets[u].sequence = 2 /\ wallets[u].txn > HistTxn + 1

\* C12: while a stored wallet fails verification (a bucket was changed out
\* of band), no step writes to that wallet, and no prepare paying from it,
\* cancel refunding to it or Credit::save on it gets past its read of it.
C12_TamperDetected ==
    [][\A u \in DOMAIN wallets :
          ~verify_checksum(wallets[u]) =>
              /\ wallets'[u] = wallets[u]
              /\ \A p \in Procs :
                    /\ (pc[p] = "idle" /\ pc'[p] = "p_insert") => doc'[p].uid # u
                    /\ (pc[p] = "x_get" /\ doc[p].uid = u) => pc'[p] # "x_cas"
                    /\ (pc[p] = "idle" /\ pc'[p] = "k_insert") => cdoc'[p].uid # u]_vars

\* C13: whatever complete calls are made on a charge, one after another or
\* at once, at most one Topup transaction is prepared for it; a charge
\* stored at status 3 names in txn that one transaction, which is committed
\* and has paid the charge's quantity from the system to the charge's user.
C13_OneTopupPerCharge ==
    \A c \in DOMAIN charges :
        /\ Cardinality(topups[c]) <= 1
        /\ charges[c].status = 3 =>
              /\ topups[c] = {charges[c].txn}
              /\ charges[c].txn \in DOMAIN txns
              /\ LET t == txns[charges[c].txn]
                 IN /\ t.status = 3
                    /\ t.kind = "topup"
                    /\ t.uid = SYS_ID
                    /\ t.payee = charges[c].uid
                    /\ t.amount = charges[c].quantity
                    /\ applied[t.id].payee.n = 1
                    /\ applied[t.id].payee.topup = charges[c].quantity

\* Two callers completed the same charge at once: one brought it to status
\* 3, the other was turned away.
C13_Witness ==
    /\ workload.procs = NumProcs
    /\ \E c \in DOMAIN charges, p \in Procs :
          /\ charges[c].status = 3
          /\ pc[p] = "done"
          /\ ret[p] = Result("complete", c, "err")
          /\ hdoc[p].c.status = 2

\* Caller q is inside a complete call on charge c.
Completing(q, c) ==
    /\ hdoc[q].step \in {"complete1", "complete2"}
    /\ hdoc[q].c.id = c
    /\ ret[q].op # "complete"

\* The charge is stored at status 2, its Topup transaction is committed, and
\* no caller other than p is at work on it: the final update of the call
\* that committed the transaction failed.
LeftAtTwo(c, p) ==
    /\ charges[c].status = 2
    /\ \E id \in topups[c] : id \in DOMAIN txns /\ txns[id].status = 3
    /\ \A q \in Procs \ {p} : ~Completing(q, c)

\* C14: a complete call, with the same inputs, on a charge left at status 2
\* after its Topup transaction committed ends, when no store call of it
\* fails, with the charge at status 3 and without a second transaction.
C14_RepeatCompleteFinishes ==
    [][\A p \in Procs :
          (/\ pc[p] \in {"h_get", "h_cas"}
           /\ hdoc[p].step \in {"complete1", "complete2"}
           /\ LeftAtTwo(hdoc[p].c.id, p)
           /\ faults' = faults
           /\ pc'[p] = "done")
          => /\ ret'[p] = Result("complete", hdoc[p].c.id, "ok")
             /\ charges'[hdoc[p].c.id].status = 3
             /\ topups' = topups]_vars

\* The status a reader is to be shown for the stored charge c.
ShownStatus(c) ==
    IF c.status \in {0, 1} /\ 0 < c.expire_at /\ c.expire_at <= now THEN -2 ELSE c.status

\* C15: get and list show status -2 for a charge stored at status 0 or 1
\* with 0 < expire_at <= now and the stored status for every other charge,
\* and write nothing: the charge rows and the ledger stay as they were.
C15_StatelessExpiry ==
    [][\A p \in Procs :
          (pc[p] = "idle" /\ pc'[p] = "done" /\ ret'[p].op \in {"get", "list"})
          => /\ charges' = charges
             /\ wallets' = wallets
             /\ txns' = txns
             /\ credits' = credits
             /\ (ret'[p].op = "get" /\ ret'[p].res = "ok") =>
                   /\ ret'[p].id \in DOMAIN charges
                   /\ hdoc'[p].c.id = ret'[p].id
                   /\ hdoc'[p].c.status = ShownStatus(charges[ret'[p].id])
             /\ ret'[p].op = "list" =>
                   \E uid \in {1, 2} :
                      hdoc'[p].rows =
                         {<<id, ShownStatus(charges[id])>> :
                             id \in {i \in DOMAIN charges : charges[i].uid = uid}}]_vars

\* A get has shown -2 for a charge that is stored at status 1, while
\* another charge past its expire_at is stored at status 3.
C15_Witness ==
    \E p \in Procs :
        /\ pc[p] = "done"
        /\ ret[p].op = "get"
        /\ ret[p].res = "ok"
        /\ hdoc[p].c.status = -2
        /\ charges[ret[p].id].status = 1
        /\ \E c \in DOMAIN charges : charges[c].status = 3 /\ charges[c].expire_at <= now

\* Credit request q asks again for a credit whose row is stored.
SavedBefore(q) ==
    /\ <<q[1], q[2]>> \in DOMAIN credits
    /\ credits[<<q[1], q[2]>>].kind = q[3]
    /\ q[4] > 0

\* C16: Credit::save called again for a (uid, txn) whose credit row an
\* earlier save appended returns success, and neither wallet.credits nor
\* the stored credit row changes.
C16_SaveAgain ==
    [][\A p \in Procs :
          /\ \A q \in workload.creds :
                (SavedBefore(q) /\ CreditNoInsert(p, q[1], q[2], q[3], q[4]))
                => /\ ret'[p] = Result("credit", q[2], "ok")
                   /\ wallets' = wallets
                   /\ credits' = credits
          /\ (/\ pc[p] = "k_insert"
              /\ <<cdoc[p].uid, cdoc[p].txn>> \in DOMAIN credits
              /\ pc'[p] # "k_insert"
              /\ faults' = faults)
             => /\ ret'[p] = Result("credit", cdoc[p].txn, "ok")
                /\ wallets' = wallets
                /\ credits' = credits]_vars

\* The sum of amount over the stored credit rows with keys in K.
RECURSIVE SumAmount(_)
SumAmount(K) ==
    IF K = {} THEN 0
    ELSE LET k == CHOOSE x \in K : TRUE
         IN credits[k].amount + SumAmount(K \ {k})

CreditRowsOf(u) == {k \in DOMAIN credits : k[1] = u}

\* A Credit::save for user u has passed its checks and has not returned.
SaveInProgress(u) ==
    \E p \in Procs : pc[p] \in {"k_insert", "k_get", "k_cas"} /\ cdoc[p].uid = u

\* C17: credit rows are keyed by (uid, txn), so there is at most one per
\* key; whenever no Credit::save on a user is in progress, the user's
\* wallet.credits is the sum of amount over the user's credit rows.
C17_CreditsIsSum ==
    \A u \in DOMAIN wallets \ {SYS_ID} :
        ~SaveInProgress(u) => wallets[u].credits = SumAmount(CreditRowsOf(u))

\* C18: the credits of a stored wallet never go down; they change only in
\* the counter update of a Credit::save for that user, which adds the
\* credit's amount, a positive number. The steps of prepare, commit and
\* cancel leave them as they are.
C18_CreditsNeverDecrease ==
    [][\A u \in DOMAIN wallets :
          /\ u \in DOMAIN wallets'
          /\ wallets'[u].credits >= wallets[u].credits
          /\ wallets'[u].credits # wallets[u].credits =>
                \E p \in Procs :
                   /\ pc[p] = "k_cas"
                   /\ cdoc[p].uid = u
                   /\ cdoc[p].amount > 0
                   /\ wallets'[u].credits = wallets[u].credits + cdoc[p].amount]_vars

\* A wallet has had credits added by Credit::save and its balance written
\* by a transaction, in a run where the two were called at once.
C18_Witness ==
    /\ workload.procs = NumProcs
    /\ workload.creds # {}
    /\ workload.reqs # {}
    /\ wallets[1].credits > FundedWallets[1].credits
    /\ wallets[1].sequence > FundedWallets[1].sequence

\* C19: Credit::save of kind award for an existing non-system wallet with
\* credits 0 goes on to append the row with the credit's amount (and so to
\* set credits to it); a credit of a kind that does not bootstrap returns
\* success at once, with no row inserted and credits still 0.
C19_AwardBootstraps ==
    [][\A p \in Procs, q \in workload.creds :
          (/\ q[4] > 0
           /\ q[1] # SYS_ID
           /\ q[1] \in DOMAIN wallets
           /\ wallets[q[1]].credits = 0
           /\ <<q[1], q[2]>> \notin DOMAIN credits
           /\ \/ CreditNoInsert(p, q[1], q[2], q[3], q[4])
              \/ CreditRead(p, q[1], q[2], q[3], q[4]))
          => IF q[3] = "award"
             THEN /\ pc'[p] = "k_insert"
                  /\ cdoc'[p] = [uid |-> q[1], txn |-> q[2], kind |-> q[3], amount |-> q[4]]
             ELSE q[3] # "init" =>
                     /\ ret'[p] = Result("credit", q[2], "ok")
                     /\ credits' = credits
                     /\ wallets' = wallets]_vars

\* The arguments of request q break one of the rules for prepare: the
\* amount, the payer and payee of the kind, or the sub-payee.
BadArguments(q) ==
    LET uid == q[1]
        payee == q[2]
        sub == q[3]
        kind == q[4]
        amount == q[5]
    IN \/ amount <= 0
       \/ kind \in {"award", "topup"} /\ ~(uid = SYS_ID /\ payee # SYS_ID)
       \/ kind \in {"refund", "withdraw", "spend"} /\ ~(uid # SYS_ID /\ payee = SYS_ID)
       \/ kind \in {"sponsor", "subscribe"} /\ ~(uid # SYS_ID /\ payee # SYS_ID)
       \/ sub # NoId /\ kind \notin {"sponsor", "subscribe"}
       \/ sub # NoId /\ sub \in {payee, uid, SYS_ID}

\* The arguments prepare recorded in the in-memory row d.
ArgumentsOf(d) == <<d.uid, d.payee, d.sub_payee, d.kind, d.amount>>

\* C20: prepare with an amount <= 0, with a payer or payee that the kind
\* does not allow, or with a sub-payee set for a kind other than sponsor and
\* subscribe or equal to the payee, the payer or the system, returns an
\* error and writes no transaction row and no wallet: a call goes on to its
\* insert only with arguments that break none of the rules, and a call that
\* ends before its insert returns an error and leaves the store as it was.
C20_PrepareValidates ==
    [][\A p \in Procs :
          pc[p] = "idle" =>
             /\ pc'[p] = "p_insert" =>
                   /\ ArgumentsOf(doc'[p]) \in workload.reqs
                   /\ ~BadArguments(ArgumentsOf(doc'[p]))
             /\ (pc'[p] = "done" /\ ret'[p].op = "prepare") =>
                   /\ ret'[p] = Result("prepare", NoId, "err")
                   /\ txns' = txns
                   /\ wallets' = wallets
                   /\ nextId' = nextId
             /\ pc'[p] \in {"idle", "p_insert", "done"}]_vars

\* A caller whose requests all have wrong arguments got an error and the
\* store is as it was.
C20_Witness ==
    /\ workload.reqs = InvalidRequests
    /\ \E p \in Procs : pc[p] = "done" /\ ret[p] = Result("prepare", NoId, "err")
    /\ txns = FundedTxns
    /\ wallets = FundedWallets

\* The credits a row t is to produce.
ExpectedCredits(t) ==
    IF t.status # 3 \/ t.uid = SYS_ID THEN {}
    ELSE {[uid |-> t.uid, txn |-> t.id, kind |-> "payout", amount |-> t.amount] :
             x \in {k \in {t.kind} : k \in {"spend", "sponsor", "subscribe"}}}
         \cup {[uid |-> t.payee, txn |-> t.id, kind |-> "income",
                amount |-> t.amount - t.sys_fee - t.sub_shares] :
                  x \in {k \in {t.kind} : k \in {"sponsor", "subscribe"}}}
         \cup {[uid |-> t.sub_payee, txn |-> t.id, kind |-> "income", amount |-> t.sub_shares] :
                  x \in {k \in {t.kind} : k \in {"sponsor", "subscribe"} /\ t.sub_shares > 0}}

\* C21: credits() of a row is empty unless the row's status is 3 and its
\* payer is not the system; then it holds a Payout on the payer for amount
\* for spend, sponsor and subscribe, an Income on the payee for
\* amount - sys_fee - sub_shares for sponsor and subscribe, an Income on the
\* sub-payee for sub_shares when sub_shares > 0, and nothing else.
C21_Credits ==
    out.fn = "credits" =>
        /\ {out.list[i] : i \in 1..Len(out.list)} = ExpectedCredits(arg.t)
        /\ Len(out.list) = Cardinality(ExpectedCredits(arg.t))

\* credits() of a committed subscribe with a sub-payee gave three credits.
C21_Witness ==
    /\ out.fn = "credits"
    /\ arg.t.kind = "subscribe"
    /\ arg.t.sub_shares > 0
    /\ Len(out.list) = 3

\* The fee rate in percent for credits = hi * Billion + lo.
RatePercent(hi, lo) ==
    IF hi = 0 /\ lo <= 9999 THEN 30
    ELSE IF hi = 0 /\ lo <= 99999 THEN 27
    ELSE IF hi = 0 /\ lo <= 999999 THEN 24
    ELSE IF hi = 0 /\ lo <= 9999999 THEN 21
    ELSE IF hi = 0 /\ lo <= 99999999 THEN 18
    ELSE IF hi = 0 THEN 15
    ELSE IF hi <= 9 THEN 12
    ELSE 9

ExpectedFee(kind, amount, hi, lo, has) ==
    CASE kind = "withdraw" -> <<Max1(amount \div 1000), 0>>
      [] kind \in {"sponsor", "subscribe"} ->
            LET sys_fee == Max1((amount * RatePercent(hi, lo)) \div 100)
            IN <<sys_fee, IF has THEN (amount - sys_fee) \div 2 ELSE 0>>
      [] OTHER -> <<0, 0>>

\* C22: fee_and_shares returns (max(1, floor(amount * 0.001)), 0) for
\* withdraw; for sponsor and subscribe sys_fee = max(1, floor(amount *
\* rate(credits))) with the step rate 30% .. 9%, and sub_shares =
\* floor((amount - sys_fee) / 2) with a sub-payee and 0 without; (0, 0) for
\* every other kind.
C22_FeeAndShares ==
    out.fn = "fee_and_shares" =>
        out.fee = ExpectedFee(arg.t.kind, arg.t.amount, arg.hi, arg.w.credits, arg.has)

\* Process p is in a commit of a transaction that is stored past status 1
\* and is at the step that inserts the wallet row of u, its payee or its
\* sub-payee.
CommitCreates(p, u) ==
    /\ doc[p].id \in DOMAIN txns
    /\ txns[doc[p].id].status >= 2
    /\ \/ pc[p] = "c_payee_save" /\ doc[p].payee = u
       \/ pc[p] = "c_join" /\ tasks[p]["sub"].st = "save" /\ doc[p].sub_payee = u

\* C23: a wallet row is only ever created by the commit of a transaction
\* that names it as payee or sub-payee, as the empty wallet, and never by
\* prepare; a commit that returns Ok has found or created the rows of its
\* payee and of its sub-payee and has credited the payee; the first credit
\* of an Award on a created wallet leaves it with award = amount and
\* sequence = 1 and with its credits as they were (0 on creation); and no
\* step deletes or resets a wallet row.
C23_CommitCreatesPayee ==
    [][/\ \A u \in DOMAIN wallets :
             u \in DOMAIN wallets' /\ wallets'[u].sequence >= wallets[u].sequence
       /\ \A u \in DOMAIN wallets' \ DOMAIN wallets :
             /\ wallets'[u] = WalletWithPk(u)
             /\ \E p \in Procs : CommitCreates(p, u)
       /\ \A p \in Procs :
             (ret'[p] # ret[p] /\ ret'[p].op = "commit" /\ ret'[p].res = "ok") =>
                 LET t == txns'[ret'[p].id]
                 IN /\ t.payee \in DOMAIN wallets'
                    /\ t.sub_shares > 0 => t.sub_payee \in DOMAIN wallets'
                    /\ applied'[t.id]["payee"].n = 1
       /\ \A id \in DOMAIN txns :
             (/\ applied[id]["payee"].n = 0
              /\ applied'[id]["payee"].n = 1
              /\ txns[id].kind = "award"
              /\ wallets[txns[id].payee].sequence = 0) =>
                 LET w == wallets'[txns[id].payee]
                 IN /\ w.award = txns[id].amount
                    /\ w.sequence = 1
                    /\ w.credits = wallets[txns[id].payee].credits
                    /\ w.topup = 0
                    /\ w.income = 0]_vars

\* An Award of 1 to user 1, who had no wallet, is committed: the wallet
\* exists with award 1 at sequence 1.
C23_Witness ==
    /\ workload.fresh
    /\ \E id \in DOMAIN txns :
          /\ txns[id].status = 3
          /\ txns[id].kind = "award"
          /\ txns[id].amount = 1
          /\ txns[id].payee = 1
    /\ 1 \in DOMAIN wallets
    /\ wallets[1].award = 1
    /\ wallets[1].sequence = 1
    /\ wallets[1].credits = 0

\* Process p won the status-1 update of transaction id, by commit or by
\* cancel, and has not returned yet.
AtWork(p, id) ==
    /\ doc[p].id = id
    /\ pc[p] \in {"c_payee_get", "c_payee_save", "c_join", "c_final", "x_get", "x_cas", "x_final"}

\* C24: of the commit and cancel calls that run on one transaction at the
\* same time at most one is past the update of status 1; the payer
\* rollback and each of the payee, system and
\* sub-payee credits are applied at most once, the rollback only at status
\* -1 or -2 and the credits only at status 2 or 3, hence never both.
C24_OneWinner ==
    \A id \in DOMAIN txns :
        /\ \A p, q \in Procs : (AtWork(p, id) /\ AtWork(q, id)) => p = q
        /\ \A r \in {"rollback", "payee", "sys", "sub"} : applied[id][r].n <= 1
        /\ applied[id]["rollback"].n > 0 => txns[id].status \in {-1, -2}
        /\ \A r \in Roles : applied[id][r].n > 0 => txns[id].status \in {2, 3}
        /\ ~(applied[id]["rollback"].n > 0 /\ \E r \in Roles : applied[id][r].n > 0)

\* A commit has credited the payee of a transaction while a cancel of the
\* same transaction, loaded at status 1, has lost the update.
C24_Witness ==
    \E p, q \in Procs :
        /\ pc[p] = "c_join"
        /\ pc[q] = "x_status"
        /\ doc[p].id = doc[q].id
        /\ doc[q].status = 1
        /\ applied[doc[p].id]["payee"].n = 1

Buckets(w) == <<w.award, w.topup, w.income>>

\* What the wallet writes of transaction t that applied are to add to the
\* balance of wallet u, by t's own amounts.
IntendedDelta(u, t) ==
    LET a == applied[t.id]
    IN (IF t.uid = u THEN (a["rollback"].n - a["payer"].n) * t.amount ELSE 0)
       + (IF t.payee = u
          THEN a["payee"].n * (t.amount - t.sub_shares
                               - (IF u = SYS_ID THEN 0 ELSE t.sys_fee))
          ELSE 0)
       + (IF u = SYS_ID THEN a["sys"].n * t.sys_fee ELSE 0)
       + (IF t.sub_payee = u THEN a["sub"].n * t.sub_shares ELSE 0)

RECURSIVE IntendedUpTo(_, _)
IntendedUpTo(u, n) ==
    IF n = 0 THEN 0
    ELSE (IF n \in DOMAIN txns THEN IntendedDelta(u, txns[n]) ELSE 0) + IntendedUpTo(u, n - 1)

\* Process p is at a wallet write on u, and the buckets b are what its
\* operation makes of the row as it is stored now.
WritesFromStored(p, u, b) ==
    \/ /\ pc[p] = "p_update"
       /\ doc[p].uid = u
       /\ b = Buckets(sub_payer_balance(doc[p].kind, wallets[u], doc[p].amount).w)
    \/ /\ pc[p] = "x_cas"
       /\ doc[p].uid = u
       /\ b = Buckets(rollback_payer_balance(doc[p].kind, wallets[u], doc[p].amount))
    \/ /\ pc[p] = "c_join"
       /\ \E r \in Roles :
             /\ tasks[p][r].st = "cas"
             /\ TaskUid(p, r) = u
             /\ b = Buckets(TaskCredit(p, r, wallets[u]))

\* C25: the balance of every stored wallet is the sum, over all
\* transactions, of the amounts of those of their wallet writes that
\* applied (every wallet starts empty); every change of a wallet's buckets
\* is the delta of one operation applied to the row as stored at that
\* moment, never to an older read; and of two transactions prepared from
\* the same sequence of the same payer at most one has its deduction
\* applied.
C25_NoLostUpdate ==
    /\ [](\A u \in DOMAIN wallets : balance(wallets[u]) = IntendedUpTo(u, HistTxn + MaxTxn))
    /\ [](\A i, j \in DOMAIN txns :
             (i # j /\ txns[i].uid = txns[j].uid /\ txns[i].sequence = txns[j].sequence) =>
                 ~(applied[i]["payer"].n > 0 /\ applied[j]["payer"].n > 0))
    /\ [][\A u \in DOMAIN wallets :
             Buckets(wallets'[u]) # Buckets(wallets[u]) =>
                 \E p \in Procs : WritesFromStored(p, u, Buckets(wallets'[u]))]_vars

\* Two prepares read the same sequence of one payer; the deduction of one
\* applied and the other has lost the wallet update.
C25_Witness ==
    \E p \in Procs, i \in DOMAIN txns :
        /\ pc[p] = "p_delete"
        /\ i # doc[p].id
        /\ txns[i].uid = doc[p].uid
        /\ txns[i].sequence = doc[p].sequence
        /\ applied[i]["payer"].n = 1
        /\ applied[doc[p].id]["payer"].n = 0

\* C26: when prepare returns a failure after it inserted the transaction
\* row, the row is not in the store any more and the payer's deduction has
\* not been applied.
C26_FailedPrepareLeavesNothing ==
    [][\A p \in Procs :
          (/\ pc[p] \in {"p_update", "p_status", "p_delete"}
           /\ ret'[p] # ret[p]
           /\ ret'[p].op = "prepare"
           /\ ret'[p].res = "err") =>
              /\ ret'[p].id \notin DOMAIN txns'
              /\ applied'[ret'[p].id]["payer"].n = 0]_vars

\* C27: a cancel that has won the update of status 1 to -1 returns an error
\* only after MaxRetry payer updates in a row did not apply, and then the
\* row is left at status -1 with no rollback applied; a row is at status -2
\* only with its rollback applied.
C27_CancelStuck ==
    /\ [](\A id \in DOMAIN txns :
             txns[id].status = -2 => applied[id]["rollback"].n = 1)
    /\ [][\A p \in Procs :
             (/\ pc[p] \in {"x_get", "x_cas"}
              /\ ret'[p] # ret[p]
              /\ ret'[p].op = "cancel"
              /\ ret'[p].res = "err") =>
                 /\ tries[p] = MaxRetry - 1
                 /\ txns'[ret'[p].id].status = -1
                 /\ applied'[ret'[p].id]["rollback"].n = 0
                 /\ wallets' = wallets]_vars

\* A cancel has won the update of status 1 to -1, four of its payer
\* updates did not apply and the fifth will not either: the payer wallet
\* has moved on again since the cancel read it.
C27_Witness ==
    \E p \in Procs :
        /\ pc[p] = "x_cas"
        /\ tries[p] = MaxRetry - 1
        /\ ~CasApplies(mem[p])
        /\ txns[doc[p].id].status = -1
        /\ applied[doc[p].id]["rollback"].n = 0

\* What a user payer may spend at most in one transaction of a kind.
Quota(kind, w) ==
    IF kind = "withdraw" THEN w.income
    ELSE IF kind = "refund" THEN w.topup
    ELSE IF kind = "spend" THEN w.award + w.topup + w.income + MAX_OVERDRAW
    ELSE w.award + w.topup + w.income

\* C28: on a user payer sub_payer_balance fails exactly when credits = 0
\* and the kind is not spend, or the balance is <= 0, or the quota of the
\* kind is below the amount, or the kind is award or topup; on the system
\* payer it succeeds exactly for award and topup; and a failure leaves the
\* wallet's buckets as they were.
C28_SubPayerBalance ==
    out.fn = "sub_payer_balance" =>
        LET w == arg.w
            kind == arg.t.kind
        IN /\ IF w.uid = SYS_ID
              THEN out.ok <=> kind \in {"award", "topup"}
              ELSE ~out.ok <=> \/ w.credits = 0 /\ kind # "spend"
                               \/ w.award + w.topup + w.income <= 0
                               \/ Quota(kind, w) < arg.t.amount
                               \/ kind \in {"award", "topup"}
           /\ ~out.ok => Buckets(out.w) = Buckets(w)

\* A refund of more than the payer's topup, which the balance would have
\* covered, failed and left the wallet as it was.
C28_Witness ==
    /\ out.fn = "sub_payer_balance"
    /\ arg.t.kind = "refund"
    /\ arg.w.uid # SYS_ID
    /\ arg.w.credits > 0
    /\ arg.w.topup < arg.t.amount
    /\ arg.t.amount <= balance(arg.w)
    /\ ~out.ok
    /\ out.w = arg.w

Max0(n) == IF n < 0 THEN 0 ELSE n

PayeeBuckets(t) ==
    LET net == t.amount - t.sys_fee - t.sub_shares
        fee == IF t.payee = SYS_ID THEN t.sys_fee ELSE 0
    IN IF t.kind = "award" THEN <<net, 0, fee>>
       ELSE IF t.kind \in {"topup", "refund", "withdraw"} THEN <<0, net, fee>>
       ELSE <<0, 0, net + fee>>

\* C30: the payee's write of a commit adds amount - sys_fee - sub_shares to
\* award for award, to topup for topup, refund and withdraw and to income
\* for spend, sponsor and subscribe, and sys_fee to income in the same
\* write when the payee is the system; otherwise sys_fee goes to the
\* system wallet's income in a write of its own; sub_shares go to the
\* sub-payee's income; and a committed transaction has all of these writes.
C30_PayeeCredit ==
    \A id \in DOMAIN txns :
        LET t == txns[id]
            a == applied[id]
        IN /\ a["payee"].n = 1 => Buckets(a["payee"]) = PayeeBuckets(t)
           /\ a["sys"].n = 1 =>
                 /\ t.payee # SYS_ID
                 /\ t.sys_fee > 0
                 /\ Buckets(a["sys"]) = <<0, 0, t.sys_fee>>
           /\ t.payee = SYS_ID => a["sys"].n = 0
           /\ a["sub"].n = 1 =>
                 /\ t.sub_shares > 0
                 /\ Buckets(a["sub"]) = <<0, 0, t.sub_shares>>
           /\ t.status = 3 =>
                 /\ a["payee"].n = 1
                 /\ (t.sys_fee > 0 /\ t.payee # SYS_ID) => a["sys"].n = 1
                 /\ t.sub_shares > 0 => a["sub"].n = 1

\* A withdrawal to the system wallet is committed: one write put the net
\* amount on topup and the fee on income; and a sponsorship with a
\* sub-payee is committed with its three writes.
C30_Witness ==
    \E id \in DOMAIN txns :
       /\ id > HistTxn
       /\ txns[id].status = 3
       /\ txns[id].kind = "withdraw"
       /\ txns[id].payee = SYS_ID
       /\ txns[id].sys_fee > 0
       /\ Buckets(applied[id]["payee"]) = <<0, txns[id].amount - txns[id].sys_fee, txns[id].sys_fee>>
       /\ \E j \in DOMAIN txns :
             /\ j > HistTxn
             /\ txns[j].status = 3
             /\ txns[j].kind = "sponsor"
             /\ applied[j]["sys"].n = 1
             /\ applied[j]["sub"].n = 1

\* The txn ids of the saves the active callers have returned from.
ReturnedSaves == {ret[p].id : p \in 1..workload.procs}

\* C31: when all callers have returned success from Credit::save calls
\* with distinct txn ids on the wallet of user 1, and no store call failed,
\* the wallet's credits are what they were plus the amounts of these rows.
C31_ConcurrentSaves ==
    (/\ workload.procs > 1
     /\ workload.faults = 0
     /\ \A p \in 1..workload.procs :
           /\ pc[p] = "done"
           /\ ret[p].op = "credit"
           /\ ret[p].res = "ok"
           /\ <<1, ret[p].id>> \in DOMAIN credits
           /\ <<1, ret[p].id>> \notin DOMAIN FundedCredits
     /\ Cardinality(ReturnedSaves) = workload.procs) =>
        wallets[1].credits =
            FundedWallets[1].credits + SumAmount({<<1, id>> : id \in ReturnedSaves})

\* Two callers have saved credits of transactions 4 and 5 for user 1 and
\* both amounts are on the counter.
C31_Witness ==
    /\ workload.procs = NumProcs
    /\ \A p \in Procs : pc[p] = "done" /\ ret[p].op = "credit" /\ ret[p].res = "ok"
    /\ ReturnedSaves = {4, 5}
    /\ wallets[1].credits = FundedWallets[1].credits + 10

\* The txn ids of the save requests with an amount <= 0, and of those with
\* a valid amount for the system uid (no other request uses these ids).
InvalidSaveTxns == {c[2] : c \in {r \in CreditRequests : r[4] <= 0}}
SystemSaveTxns == {c[2] : c \in {r \in CreditRequests : r[4] > 0 /\ r[1] = SYS_ID}}

\* C32: a Credit::save with amount <= 0 returns an error and one with a
\* valid amount for the system uid returns success, both at once and with
\* the credit rows and the wallets unchanged; and no credit row has an
\* amount <= 0 or the system uid.
C32_SaveRejects ==
    /\ [](\A k \in DOMAIN credits : credits[k].amount > 0 /\ k[1] # SYS_ID)
    /\ [][\A p \in Procs :
             (/\ ret'[p] # ret[p]
              /\ ret'[p].op = "credit"
              /\ ret'[p].id \in InvalidSaveTxns \cup SystemSaveTxns) =>
                 /\ pc[p] = "idle"
                 /\ ret'[p].res = (IF ret'[p].id \in InvalidSaveTxns THEN "err" ELSE "ok")
                 /\ credits' = credits
                 /\ wallets' = wallets]_vars

\* A save with amount 0 has returned an error and, in another run, a save
\* for the system uid has returned success, with no row written for
\* either.
C32_Witness ==
    \E p \in Procs :
        /\ ret[p].op = "credit"
        /\ \/ ret[p].id \in InvalidSaveTxns /\ ret[p].res = "err"
           \/ ret[p].id \in SystemSaveTxns /\ ret[p].res = "ok"
        /\ \A k \in DOMAIN credits : k[2] # ret[p].id

\* The columns of a charge row that are not in valid_fields.
Unlisted(c) == <<c.uid, c.id, c.quantity, c.expire_at>>

\* C33: an update call that returns success had an expected status of 0 or
\* 1 equal to the stored status, a new status (if any) of -2, 0 or 1 and
\* listed columns only, and wrote exactly its columns; one that returns an
\* error wrote nothing; and no write to a charge row changes a column
\* outside the list.
C33_ChargeUpdate ==
    [][/\ \A p \in Procs :
             (ret'[p] # ret[p] /\ ret'[p].op \in {"update", "columns"}) =>
                 LET h == hdoc'[p]
                     id == ret'[p].id
                 IN IF ret'[p].res = "ok"
                    THEN /\ h.expect \in {0, 1}
                         /\ charges[id].status = h.expect
                         /\ h.cols.set \subseteq valid_fields
                         /\ "status" \in h.cols.set => h.cols.status \in {-2, 0, 1}
                         /\ charges' = [charges EXCEPT ![id] = Fill(@, h.cols)]
                    ELSE charges' = charges
       /\ \A id \in DOMAIN charges : Unlisted(charges'[id]) = Unlisted(charges[id])]_vars

\* An update has set a charge from status 1 to -2; other runs end in the
\* states where an update with a refused status, a stale expected status
\* or an unlisted column has returned an error.
C33_Witness ==
    \E p \in Procs :
        /\ pc[p] = "done"
        /\ ret[p] = Result("update", hdoc[p].c.id, "ok")
        /\ hdoc[p].expect = 1
        /\ hdoc[p].cols.status = -2
        /\ charges[ret[p].id].status = -2

\* C34: a retry loop (the payer rollback of cancel, a sub-task of commit,
\* the counter update of Credit::save) starts at most MaxRetry conditional
\* updates; when the last of them does not apply the operation ends with
\* an error, and it reports success only after an update that applied.
C34_BoundedRetries ==
    /\ [](\A p \in Procs :
             /\ tries[p] < MaxRetry
             /\ \A r \in Roles :
                   /\ tasks[p][r].n <= MaxRetry
                   /\ tasks[p][r].st = "cas" => tasks[p][r].n < MaxRetry)
    /\ [][\A p \in Procs :
             /\ (/\ pc[p] \in {"x_cas", "k_cas"}
                 /\ pc'[p] # pc[p]
                 /\ tries[p] = MaxRetry - 1
                 /\ wallets' = wallets) => (pc'[p] = "done" /\ ret'[p].res = "err")
             /\ (pc[p] = "x_cas" /\ pc'[p] = "x_final") =>
                    wallets'[doc[p].uid] # wallets[doc[p].uid]
             /\ (ret'[p] # ret[p] /\ ret'[p] = Result("cancel", ret'[p].id, "ok")) =>
                    pc[p] \in {"x_final", "x_status"}
             /\ (pc[p] = "k_cas" /\ pc'[p] = "done" /\ ret'[p].res = "ok") =>
                    wallets'[cdoc[p].uid].credits =
                        wallets[cdoc[p].uid].credits + cdoc[p].amount
             /\ \A r \in Roles :
                   /\ (tasks[p][r].st = "cas" /\ tasks'[p][r].st = "ok") =>
                          wallets'[TaskUid(p, r)] # wallets[TaskUid(p, r)]
                   /\ (tasks[p][r].n = MaxRetry /\ tasks'[p][r] # tasks[p][r]) =>
                          \/ tasks'[p][r].st = "err"
                          \/ pc'[p] = "done" /\ ret'[p].res = "err"
             /\ (pc[p] = "c_join" /\ pc'[p] = "c_final") =>
                    \A r \in Roles : tasks[p][r].st = "ok"
             /\ (ret'[p] # ret[p] /\ ret'[p] = Result("commit", ret'[p].id, "ok")) =>
                    pc[p] \in {"c_final", "c_status"}]_vars

\* The payee task of a commit has lost MaxRetry updates and ended with an
\* error, its wallet unwritten by this commit.
C34_Witness ==
    \E p \in Procs :
        /\ pc[p] = "c_join"
        /\ tasks[p]["payee"].st = "err"
        /\ tasks[p]["payee"].n = MaxRetry
        /\ applied[doc[p].id]["payee"].n = 0

\* A transaction row without its status.
Frozen(t) == [t EXCEPT !.status = 0]

\* C35: a transaction row that has left status 0 (its prepare succeeded)
\* stays stored, and every step leaves all its columns but status as they
\* are.
C35_OnlyStatusChanges ==
    [][\A id \in DOMAIN txns :
          txns[id].status # 0 =>
              /\ id \in DOMAIN txns'
              /\ Frozen(txns'[id]) = Frozen(txns[id])]_vars

\* A commit has taken a sponsor row with a system fee to status 3, and the
\* row still holds the payer, payee, amount and fee of its request.
C35_Witness ==
    \E p \in Procs :
        /\ pc[p] = "done"
        /\ ret[p].op = "commit"
        /\ ret[p].res = "ok"
        /\ ret[p].id > HistTxn
        /\ txns[ret[p].id].status = 3
        /\ txns[ret[p].id].kind = "sponsor"
        /\ txns[ret[p].id].sys_fee > 0
        /\ txns[ret[p].id].amount = 10

\* C36: every row that prepare has written has amount > 0, sys_fee >= 0,
\* sub_shares >= 0 and sys_fee + sub_shares <= amount, has a sub-payee if
\* it has sub_shares, and its sub-payee is none of the system, the payer and
\* the payee.
C36_RowInvariants ==
    \A id \in DOMAIN txns :
        id > HistTxn =>
            LET t == txns[id]
            IN /\ t.amount > 0
               /\ t.sys_fee >= 0
               /\ t.sub_shares >= 0
               /\ t.sys_fee + t.sub_shares <= t.amount
               /\ t.sub_shares > 0 => t.sub_payee # NoId
               /\ t.sub_payee \notin {SYS_ID, t.uid, t.payee}

\* prepare has returned success for a row with a system fee and a share
\* for its sub-payee.
C36_Witness ==
    \E p \in Procs :
        /\ pc[p] = "done"
        /\ ret[p].op = "prepare"
        /\ ret[p].res = "ok"
        /\ txns[ret[p].id].status = 1
        /\ txns[ret[p].id].sys_fee > 0
        /\ txns[ret[p].id].sub_shares > 0
        /\ txns[ret[p].id].sub_payee # NoId

C38_DerivedCreditsValid ==
    out.fn = "credits" =>
        \A i \in 1 .. Len(out.list) : ~InvalidAmount(out.list[i].amount)

\* The sum of balance() over the stored wallets with uid in U.
RECURSIVE SumBalance(_)
SumBalance(U) ==
    IF U = {} THEN 0
    ELSE LET u == CHOOSE x \in U : TRUE
         IN balance(wallets[u]) + SumBalance(U \ {u})

TotalBalance == SumBalance(DOMAIN wallets)

\* Every stored transaction row is committed or cancelled.
AllSettled == \A id \in DOMAIN txns : txns[id].status \in {3, -2}

\* C39: the balances of all wallets, the system wallet included, never sum
\* to more than 0, and they sum to 0 whenever every transaction row is at
\* status 3 or -2.
C39_NoMoneyCreated ==
    /\ TotalBalance <= 0
    /\ AllSettled => TotalBalance = 0

\* Two transactions of this run are settled, one committed with a fee and
\* one cancelled, and the balances sum to 0 with user wallets holding money.
C39_Witness ==
    /\ AllSettled
    /\ \E i, j \in DOMAIN txns :
          /\ i > HistTxn /\ txns[i].status = 3 /\ txns[i].sys_fee > 0
          /\ j > HistTxn /\ txns[j].status = -2
    /\ TotalBalance = 0
    /\ \E u \in DOMAIN wallets : balance(wallets[u]) > 0

\* C40: with one caller and no store error, a commit invoked on a Prepared
\* row leads to the row at status 3, and a cancel invoked on a Prepared row
\* leads to the row at status -2.
C40_Progress ==
    \A id \in Ids :
        /\ (\E p \in Procs : pc[p] = "commit" /\ doc[p].id = id /\ doc[p].status = 1)
              ~> (id \in DOMAIN txns /\ txns[id].status = 3)
        /\ (\E p \in Procs : pc[p] = "cancel" /\ doc[p].id = id /\ doc[p].status = 1)
              ~> (id \in DOMAIN txns /\ txns[id].status = -2)

\* The caller's cancel of one Prepared row and commit of another, a
\* sponsor with a sub-payee, have both returned success.
C40_Witness ==
    \E p \in Procs, i, j \in DOMAIN txns :
        /\ txns[i].status = -2
        /\ i > HistTxn
        /\ txns[j].status = 3
        /\ txns[j].sub_shares > 0
        /\ pc[p] = "done"
        /\ ret[p] = Result("commit", j, "ok")

====
